---------------------------- MODULE Spec2Model ----------------------------
(***************************************************************************)
(* A model of the GreatShield Logger (src/src/utils/logger.ts): the        *)
(* in-memory log buffer with level filtering and FIFO trimming, log        *)
(* groups, run-time reconfiguration, the three periodic triggers (memory   *)
(* check, buffer rotation, backup), the backup's failure tracking with     *)
(* exponential backoff, the sanitisation of message texts and contexts,    *)
(* and the performance tracker with its percentiles.                       *)
(*                                                                         *)
(* Conventions.                                                            *)
(*  - A Partial<LoggerConfig> is a record over all modelled fields whose   *)
(*    values are options: <<>> for a field the partial does not name       *)
(*    (undefined), <<v>> for a field it sets to v.                         *)
(*  - A timer handle is a record: NoTimer (null), Interval(d) for          *)
(*    setInterval(.., d), Timeout(d) for setTimeout(.., d).                *)
(*  - Date.now() - lastBackupAttempt is kept as sinceAttempt, a point of   *)
(*    TimePoints (the lower end of the region between two consecutive      *)
(*    backoff values the difference lies in), saturating at                *)
(*    MAX_BACKOFF_TIME: the code only compares the difference with         *)
(*    backupBackoffTime, whose values are all points of TimePoints.        *)
(*  - consoleOut is the sequence of console calls the last operation made. *)
(*  - pushed (the last MaxBuffer entries pushed onto the buffer since the  *)
(*    last clear or reconfiguration), lastOp (the last operation with its  *)
(*    arguments) and cleanedUp (cleanup() has returned and setConfig() has *)
(*    not been called since) are history variables: no operation reads     *)
(*    them.                                                                *)
(***************************************************************************)
EXTENDS Integers, Sequences, FiniteSets

(***************************************************************************)
(* Bounds of the model.                                                    *)
(***************************************************************************)
\* Longest buffer: a push that would leave more entries is not taken.
MaxBuffer == 3
\* Largest value of the byte counter currentLogSize.
MaxLogBytes == 3
\* Largest formatted size, in bytes, of one entry (sizes are 1..MaxEntryBytes).
MaxEntryBytes == 1
\* Backup attempts that may be awaiting the external store at once.
MaxInFlight == 2
\* Most deferred failure handlers waiting to run at one time.
MaxPending == 1
\* Most consecutive backup failures counted.
MaxFailures == 6
\* Longest duration history: the performanceHistory the tracker is configured with.
MaxHistory == 5
\* Date.now() goes up to MaxClock ticks.
MaxClock == 2
\* The decimal places printed of a number that is no integer.
FractionPlaces == 6

(***************************************************************************)
(* Program constants.                                                      *)
(***************************************************************************)
MAX_BACKUP_FAILURES == 5
INITIAL_BACKOFF_TIME == 60000
MAX_BACKOFF_TIME == 3600000
\* DEFAULT_CONFIG
DEFAULT_maxLogSize == 1000
DEFAULT_rotationInterval == 86400000
DEFAULT_memoryCheckInterval == 300000
DEFAULT_backupInterval == 3600000
DEFAULT_rotationMaxSize == 10485760
DEFAULT_performanceHistory == 1000
\* The deepest level redact() walks: depth > 10 is cut.
MAX_REDACT_DEPTH == 10

\* enum LogLevel, in declaration order (Object.values(LogLevel)).
LogLevel == <<"DEBUG", "INFO", "WARN", "ERROR">>
LogLevels == {LogLevel[i] : i \in 1..Len(LogLevel)}

\* Array.prototype.indexOf on Object.values(LogLevel): 0-based, -1 if absent.
indexOf(level) ==
  IF level \in LogLevels
    THEN (CHOOSE i \in 1..Len(LogLevel) : LogLevel[i] = level) - 1
    ELSE -1

DEFAULT_CONFIG ==
  [ minLevel            |-> "INFO",
    persistLogs         |-> TRUE,
    maxLogSize          |-> DEFAULT_maxLogSize,
    rotationInterval    |-> DEFAULT_rotationInterval,
    format              |-> [timestamp |-> TRUE, level |-> TRUE],
    trackPerformance    |-> TRUE,
    trackMemory         |-> TRUE,
    memoryCheckInterval |-> DEFAULT_memoryCheckInterval,
    backupInterval      |-> DEFAULT_backupInterval,
    sensitiveKeys       |-> <<"password", "token", "key", "secret", "authorization">>,
    rotation            |-> [maxSize |-> DEFAULT_rotationMaxSize],
    performanceHistory  |-> DEFAULT_performanceHistory ]

ConfigFields == DOMAIN DEFAULT_CONFIG
FormatFields == DOMAIN DEFAULT_CONFIG.format

\* The partial that names no field: {}.
EmptyPartial == [f \in ConfigFields |-> <<>>]
\* The partial naming exactly the fields of the record r, e.g. With([minLevel |-> "WARN"]).
With(r) == [f \in ConfigFields |-> IF f \in DOMAIN r THEN <<r[f]>> ELSE <<>>]
\* A partial format object naming exactly the fields of r.
FormatWith(r) == [f \in FormatFields |-> IF f \in DOMAIN r THEN <<r[f]>> ELSE <<>>]

\* The mutant of the format merge that takes the partial's format object as
\* it is: a format field the object does not name is undefined (falsy).
mergeFormatShallow(partial) ==
  IF partial.format = <<>>
    THEN DEFAULT_CONFIG.format
    ELSE [f \in FormatFields |->
            IF partial.format[1][f] = <<>> THEN FALSE ELSE partial.format[1][f][1]]

\* { ...DEFAULT_CONFIG.format, ...(config.format || {}) }
mergeFormat(partial) ==
  IF partial.format = <<>>
    THEN DEFAULT_CONFIG.format
    ELSE [f \in FormatFields |->
            IF partial.format[1][f] = <<>>
              THEN DEFAULT_CONFIG.format[f]
              ELSE partial.format[1][f][1]]

\* A merge onto a given base configuration instead of DEFAULT_CONFIG: what
\* mergeWithDefaults would be if it spread the partial over base.
mergeOnto(base, partial) ==
  [f \in ConfigFields |->
     CASE f = "minLevel" ->
            IF partial.minLevel # <<>> /\ partial.minLevel[1] \in LogLevels
              THEN partial.minLevel[1] ELSE base.minLevel
       [] f = "maxLogSize" ->
            IF partial.maxLogSize # <<>> /\ partial.maxLogSize[1] > 0
              THEN partial.maxLogSize[1] ELSE base.maxLogSize
       [] f = "format" ->
            IF partial.format = <<>>
              THEN base.format
              ELSE [g \in FormatFields |->
                      IF partial.format[1][g] = <<>>
                        THEN base.format[g] ELSE partial.format[1][g][1]]
       [] OTHER -> IF partial[f] = <<>> THEN base[f] ELSE partial[f][1]]

\* The mutant of mergeWithDefaults that takes every named value unvalidated.
mergeUnvalidated(partial) ==
  [f \in ConfigFields |->
     CASE f = "format" -> mergeFormat(partial)
       [] OTHER -> IF partial[f] = <<>> THEN DEFAULT_CONFIG[f] ELSE partial[f][1]]

\* Logger.mergeWithDefaults: { ...DEFAULT_CONFIG, ...config, minLevel, maxLogSize, format }
mergeWithDefaults(partial) ==
  [f \in ConfigFields |->
     CASE f = "minLevel" ->
            IF partial.minLevel # <<>> /\ partial.minLevel[1] \in LogLevels
              THEN partial.minLevel[1] ELSE DEFAULT_CONFIG.minLevel
       [] f = "maxLogSize" ->
            IF partial.maxLogSize # <<>> /\ partial.maxLogSize[1] > 0
              THEN partial.maxLogSize[1] ELSE DEFAULT_CONFIG.maxLogSize
       [] f = "format" -> mergeFormat(partial)
       [] OTHER -> IF partial[f] = <<>> THEN DEFAULT_CONFIG[f] ELSE partial[f][1]]

(***************************************************************************)
(* Timer handles and time.                                                 *)
(***************************************************************************)
NoTimer == [kind |-> "null"]
Interval(d) == [kind |-> "interval", delay |-> d]
Timeout(d) == [kind |-> "timeout", delay |-> d]

Min(a, b) == IF a <= b THEN a ELSE b

\* The values backupBackoffTime takes: INITIAL_BACKOFF_TIME doubled, capped.
RECURSIVE Backoffs(_)
Backoffs(b) ==
  IF b >= MAX_BACKOFF_TIME THEN {MAX_BACKOFF_TIME}
  ELSE {b} \cup Backoffs(Min(b * 2, MAX_BACKOFF_TIME))

TimePoints == {0} \cup Backoffs(INITIAL_BACKOFF_TIME)

VARIABLES
  config,                 \* this.config
  logBuffer,              \* this.logBuffer
  currentGroup,           \* this.currentGroup
  memoryCheckIntervalId,  \* timer handles
  backupIntervalId,
  rotationIntervalId,
  backupFailures,         \* this.backupFailures
  backupBackoffTime,      \* this.backupBackoffTime
  sinceAttempt,           \* Date.now() - this.lastBackupAttempt
  currentLogSize,         \* this.currentLogSize
  currentLogPath,         \* this.currentLogPath
  rotInFlight,            \* rotateLogFile() calls past their guard, awaiting I/O
  inFlight,               \* backupLogs() calls awaiting chrome.storage.local.set
  pendingHandlers,        \* setTimeout(() => handleBackupFailure(true), 0) not yet run
  consoleOut,             \* console calls made by the last operation
  memAvailable,           \* whether getMemoryUsage() returns a metric here
  clock,                  \* Date.now(), in ticks since construction (1 then)
  performanceMarks,       \* this.performanceMarks: operation -> <<>> or <<start time>>
  performanceHistory,     \* this.performanceHistory: operation -> durations (<<>> if absent)
  pushed,                 \* history: the last entries pushed since the last reset
  lastOp,                 \* history: the last operation and its arguments
  cleanedUp               \* history: cleanup() returned, no setConfig() since

timerVars == <<memoryCheckIntervalId, backupIntervalId, rotationIntervalId>>
backupVars == <<backupFailures, backupBackoffTime, sinceAttempt, inFlight, pendingHandlers>>
logVars == <<logBuffer, pushed, consoleOut, currentLogSize, rotInFlight>>
envVars == <<currentLogPath, memAvailable, clock>>
perfVars == <<performanceMarks, performanceHistory>>
vars == <<config, timerVars, backupVars, logVars, currentGroup, envVars, perfVars, lastOp, cleanedUp>>

(***************************************************************************)
(* Text and context sanitisation.                                          *)
(*                                                                         *)
(* A text is a string, read character by character. A context value is a   *)
(* record tagged with its JavaScript type; objects and arrays carry the    *)
(* identity (id) the WeakSet of sanitizeContext tells them apart by, and   *)
(* an object lists its own enumerable properties in Object.entries order.  *)
(* The copy redact() builds of an object keeps the id of its original.     *)
(***************************************************************************)
Undefined == [type |-> "undefined"]
Null == [type |-> "null"]
Str(s) == [type |-> "string", text |-> s]
Num(n) == [type |-> "number", num |-> n]
Obj(id, entries) == [type |-> "object", id |-> id, entries |-> entries]
Arr(id, items) == [type |-> "array", id |-> id, items |-> items]
Prop(key, value) == [key |-> key, value |-> value]

\* The characters /[\n\r\t\v\f\b]/ that a TLA+ string can hold.
SpacedChars == {"\n", "\r", "\t", "\f"}
\* The characters \x20-\x7E (but the grave accent, which no TLA+ string holds).
PrintableText ==
  " !#$%&'()*+,-./0123456789:;<=>?@ABCDEFGHIJKLMNOPQRSTUVWXYZ[]^_abcdefghijklmnopqrstuvwxyz{|}~"
PrintableChars ==
  {SubSeq(PrintableText, i, i) : i \in 1..Len(PrintableText)} \cup {"\"", "\\"}

\* The mutant of the replace() calls that escapes instead of replacing: a
\* listed control character and the backslash are written with a backslash
\* before them.
sanitizeCharEscaped(c) ==
  IF c \in SpacedChars THEN "\\n"
  ELSE IF c = "\\" THEN "\\\\"
  ELSE IF c \in PrintableChars THEN c
  ELSE ""

\* The three replace() calls on one character: a listed control character
\* becomes a space, any other character below \x20 or in \x7F-\x9F is
\* removed, and a printable one is kept.
sanitizeChar(c) ==
  IF c \in SpacedChars THEN " "
  ELSE IF c \in PrintableChars THEN c
  ELSE ""

\* String(x).replace(/[\n\r\t\v\f\b]/g, ' ').replace(/[\x00-\x1F\x7F-\x9F]/g, '')
\*          .replace(/[^\x20-\x7E\u0080-\uFFFF]/g, '')
RECURSIVE sanitizeString(_)
sanitizeString(s) ==
  IF s = "" THEN ""
  ELSE sanitizeChar(Head(s)) \o sanitizeString(Tail(s))

\* String.prototype.includes
includes(s, part) ==
  \E i \in 1..(Len(s) - Len(part) + 1) : SubSeq(s, i, i + Len(part) - 1) = part

UpperText == "ABCDEFGHIJKLMNOPQRSTUVWXYZ"
LowerText == "abcdefghijklmnopqrstuvwxyz"
\* The lower-case letter of each upper-case one.
LowerOf ==
  [c \in {SubSeq(UpperText, i, i) : i \in 1..Len(UpperText)} |->
     LET i == CHOOSE j \in 1..Len(UpperText) : SubSeq(UpperText, j, j) = c
     IN SubSeq(LowerText, i, i)]
toLowerChar(c) == IF c \in DOMAIN LowerOf THEN LowerOf[c] ELSE c

\* String.prototype.toLowerCase: each character in lower case, the text
\* taken by halves.
RECURSIVE toLowerCase(_)
toLowerCase(s) ==
  IF s = "" THEN ""
  ELSE IF Len(s) = 1 THEN toLowerChar(s)
  ELSE LET half == Len(s) \div 2
       IN toLowerCase(SubSeq(s, 1, half)) \o toLowerCase(SubSeq(s, half + 1, Len(s)))

\* sanitizeContext's isSensitiveKey under configuration cfg.
isSensitiveKey(cfg, key) ==
  \E i \in 1..Len(cfg.sensitiveKeys) :
    includes(toLowerCase(key), toLowerCase(cfg.sensitiveKeys[i]))

REDACTED == "[REDACTED]"
MaxDepthMarker == "[Max Depth Exceeded]"
CircularMarker == "[Circular]"

\* sanitizeContext's redact(obj, depth) with the objects seen so far: the
\* value it returns and the objects seen after the call.
RECURSIVE redact(_, _, _, _)
RECURSIVE redactItems(_, _, _, _)
RECURSIVE redactEntries(_, _, _, _)
RECURSIVE redactEntriesAllKeys(_, _, _, _)
RECURSIVE redactKeepingSeen(_, _, _, _)

\* The mutant of the loop over Object.entries that walks into the value of
\* every key, sensitive or not.
redactEntriesAllKeys(cfg, entries, depth, seen) ==
  IF entries = <<>> THEN [value |-> <<>>, seen |-> seen]
  ELSE LET e == Head(entries)
           h == redact(cfg, e.value, depth, seen)
           t == redactEntriesAllKeys(cfg, Tail(entries), depth, h.seen)
       IN [value |-> <<Prop(e.key, h.value)>> \o t.value, seen |-> t.seen]

\* The mutant of redact that returns an object it has seen as it is, the
\* reference left in place.
redactKeepingSeen(cfg, obj, depth, seen) ==
  IF depth > MAX_REDACT_DEPTH THEN [value |-> Str(MaxDepthMarker), seen |-> seen]
  ELSE IF obj.type \in {"null", "undefined"} THEN [value |-> obj, seen |-> seen]
  ELSE IF obj.type \in {"object", "array"} /\ obj.id \in seen
    THEN [value |-> obj, seen |-> seen]
  ELSE
    LET seen1 == IF obj.type \in {"object", "array"} THEN seen \cup {obj.id} ELSE seen
    IN CASE obj.type = "string" ->
              [value |-> Str(sanitizeString(obj.text)), seen |-> seen1]
         [] obj.type = "array" ->
              LET r == redactItems(cfg, obj.items, depth + 1, seen1)
              IN [value |-> Arr(obj.id, r.value), seen |-> r.seen]
         [] obj.type = "object" ->
              LET r == redactEntries(cfg, obj.entries, depth + 1, seen1)
              IN [value |-> Obj(obj.id, r.value), seen |-> r.seen]
         [] OTHER -> [value |-> obj, seen |-> seen1]

redact(cfg, obj, depth, seen) ==
  IF depth > MAX_REDACT_DEPTH THEN [value |-> Str(MaxDepthMarker), seen |-> seen]
  ELSE IF obj.type \in {"null", "undefined"} THEN [value |-> obj, seen |-> seen]
  ELSE IF obj.type \in {"object", "array"} /\ obj.id \in seen
    THEN [value |-> Str(CircularMarker), seen |-> seen]
  ELSE
    LET seen1 == IF obj.type \in {"object", "array"} THEN seen \cup {obj.id} ELSE seen
    IN CASE obj.type = "string" ->
              [value |-> Str(sanitizeString(obj.text)), seen |-> seen1]
         [] obj.type = "array" ->
              LET r == redactItems(cfg, obj.items, depth + 1, seen1)
              IN [value |-> Arr(obj.id, r.value), seen |-> r.seen]
         [] obj.type = "object" ->
              LET r == redactEntries(cfg, obj.entries, depth + 1, seen1)
              IN [value |-> Obj(obj.id, r.value), seen |-> r.seen]
         [] OTHER -> [value |-> obj, seen |-> seen1]

\* obj.map(item => redact(item, depth + 1)), depth being the items' depth.
redactItems(cfg, items, depth, seen) ==
  IF items = <<>> THEN [value |-> <<>>, seen |-> seen]
  ELSE LET h == redact(cfg, Head(items), depth, seen)
           t == redactItems(cfg, Tail(items), depth, h.seen)
       IN [value |-> <<h.value>> \o t.value, seen |-> t.seen]

\* The loop over Object.entries(obj), depth being the values' depth.
redactEntries(cfg, entries, depth, seen) ==
  IF entries = <<>> THEN [value |-> <<>>, seen |-> seen]
  ELSE LET e == Head(entries)
           h == IF isSensitiveKey(cfg, e.key)
                  THEN [value |-> Str(REDACTED), seen |-> seen]
                  ELSE redact(cfg, e.value, depth, seen)
           t == redactEntries(cfg, Tail(entries), depth, h.seen)
       IN [value |-> <<Prop(e.key, h.value)>> \o t.value, seen |-> t.seen]

\* Logger.sanitizeContext
sanitizeContext(cfg, context) == redact(cfg, context, 0, {}).value

\* 'key' in context, and context[key], for an object.
HasKey(context, key) ==
  context.type = "object" /\ \E i \in 1..Len(context.entries) : context.entries[i].key = key
Get(context, key) ==
  context.entries[CHOOSE i \in 1..Len(context.entries) : context.entries[i].key = key].value

\* { ...entries, [key]: value }
setKey(entries, key, value) ==
  IF \E i \in 1..Len(entries) : entries[i].key = key
    THEN [i \in 1..Len(entries) |->
            IF entries[i].key = key THEN Prop(key, value) ELSE entries[i]]
    ELSE Append(entries, Prop(key, value))


(***************************************************************************)
(* Logging.                                                                *)
(***************************************************************************)
\* null / undefined of a string-valued field.
NULL == "null"
\* Names given to startLogGroup and message texts of the callers.
GroupNames == {"A", "B"}
Messages == {"m1"}
\* Operation names given to startMeasurement and endMeasurement.
Operations == {"op"}
EntrySizes == 1..MaxEntryBytes

\* The part of the state log() and error() write; an operation that makes
\* no console call leaves consoleOut empty.
LogState ==
  [ logBuffer      |-> logBuffer,
    pushed         |-> pushed,
    consoleOut     |-> <<>>,
    currentLogSize |-> currentLogSize,
    rotInFlight    |-> rotInFlight ]

SetLogState(S) ==
  /\ logBuffer' = S.logBuffer
  /\ pushed' = S.pushed
  /\ consoleOut' = S.consoleOut
  /\ currentLogSize' = S.currentLogSize
  /\ rotInFlight' = S.rotInFlight

\* The model's bounds on the log state.
WithinBounds(S) ==
  /\ Len(S.logBuffer) <= MaxBuffer
  /\ S.currentLogSize <= MaxLogBytes

\* Array.prototype.slice(-n) for n > 0: the last n elements.
sliceLast(buf, n) ==
  IF Len(buf) <= n THEN buf ELSE SubSeq(buf, Len(buf) - n + 1, Len(buf))

\* The mutant of shouldLog that lets every level through.
shouldLogAlways(cfg, level) == TRUE

\* Logger.shouldLog
shouldLog(cfg, level) == indexOf(level) >= indexOf(cfg.minLevel)

\* The mutant of rotateLogs that keeps the oldest entries: slice(0, maxLogSize).
rotateLogsKeepOldest(buf, cfg) ==
  IF Len(buf) > cfg.maxLogSize THEN SubSeq(buf, 1, cfg.maxLogSize) ELSE buf

\* The mutant of rotateLogs that empties a buffer longer than the capacity.
rotateLogsToEmpty(buf, cfg) ==
  IF Len(buf) > cfg.maxLogSize THEN <<>> ELSE buf

\* Logger.rotateLogs
rotateLogs(buf, cfg) ==
  IF Len(buf) > cfg.maxLogSize THEN sliceLast(buf, cfg.maxLogSize) ELSE buf

\* Logger.rotateLogFile up to its first await: the number of rotations in
\* flight after the call, given the byte counter at the call.
rotateLogFile(cfg, size, rotating) ==
  IF currentLogPath = NULL \/ size < cfg.rotation.maxSize
    THEN rotating
    ELSE rotating + 1

\* Logger.updateLogSize, as the pair of the new byte counter and the
\* rotations in flight.
updateLogSize(cfg, size, bytes, rotating) ==
  LET newSize == size + bytes IN
  [ currentLogSize |-> newSize,
    rotInFlight    |-> IF newSize >= cfg.rotation.maxSize
                         THEN rotateLogFile(cfg, newSize, rotating)
                         ELSE rotating ]

\* The console method outputToConsole calls for a level.
consoleMethod(level) ==
  CASE level = "DEBUG" -> "debug"
    [] level = "INFO"  -> "info"
    [] level = "WARN"  -> "warn"
    [] level = "ERROR" -> "error"

\* Logger.log (and debug/info/warn, which only fix the level) under
\* configuration cfg, on log state S, with a context (Undefined when the
\* caller passes none): the log state after the call. bytes is the byte
\* length of the formatted entry.
logWith(S, cfg, level, message, context, bytes) ==
  IF ~shouldLog(cfg, level) THEN S
  ELSE
    LET entry == [ timestamp   |-> clock,
                   level       |-> level,
                   message     |-> sanitizeString(message),
                   context     |-> IF context.type \in {"undefined", "null"}
                                     THEN Undefined
                                     ELSE sanitizeContext(cfg, context),
                   performance |-> IF HasKey(context, "performance")
                                     THEN Get(context, "performance")
                                     ELSE Undefined,
                   group       |-> currentGroup,
                   memory      |-> cfg.trackMemory /\ memAvailable ]
        sized == updateLogSize(cfg, S.currentLogSize, bytes, S.rotInFlight)
    IN [ logBuffer      |-> rotateLogs(Append(S.logBuffer, entry), cfg),
         pushed         |-> sliceLast(Append(S.pushed, entry), MaxBuffer),
         consoleOut     |-> Append(S.consoleOut, consoleMethod(level)),
         currentLogSize |-> sized.currentLogSize,
         rotInFlight    |-> sized.rotInFlight ]

\* log(level, message) without a context. The calls the class makes itself
\* are modelled so too: the contexts they pass hold numbers and texts of the
\* class under keys of its own, and no claim reads them.
logInto(S, cfg, level, message, bytes) ==
  logWith(S, cfg, level, message, Undefined, bytes)

log(cfg, level, message, bytes) == logInto(LogState, cfg, level, message, bytes)

\* The error field error() stores for its Error argument (Undefined when the
\* caller passes none).
errorInfo(err) ==
  IF err = Undefined THEN Undefined
  ELSE Obj(0, <<Prop("message", Get(err, "message")), Prop("stack", Get(err, "stack"))>>)

\* Logger.error: the log state after the call.
errorWith(message, err, context) ==
  LET own == IF context.type \in {"undefined", "null"}
               THEN <<>>
               ELSE sanitizeContext(config, context).entries
      entry == [ timestamp   |-> clock,
                 level       |-> "ERROR",
                 message     |-> message,
                 context     |-> Obj(0, setKey(own, "error", errorInfo(err))),
                 performance |-> Undefined,
                 group       |-> currentGroup,
                 memory      |-> FALSE ]
  IN [ logBuffer      |-> Append(logBuffer, entry),
       pushed         |-> sliceLast(Append(pushed, entry), MaxBuffer),
       consoleOut     |-> <<"error">>,
       currentLogSize |-> currentLogSize,
       rotInFlight    |-> rotInFlight ]

\* error(message) without an Error and without a context.
error(message) == errorWith(message, Undefined, Undefined)

(***************************************************************************)
(* Construction.                                                           *)
(***************************************************************************)
\* Logger.setupLogRotation / setupLogBackup: the handle they install.
setupLogRotation(cfg) == Interval(cfg.rotationInterval)
setupLogBackup(cfg) == Interval(cfg.backupInterval)

\* Logger.setupMemoryMonitoring, called with the handle already null: the
\* handle it leaves.
setupMemoryMonitoring(cfg) ==
  IF memAvailable THEN Interval(cfg.memoryCheckInterval) ELSE NoTimer

\* The message setupMemoryMonitoring logs at DEBUG when the probe is missing.
NoMemoryMsg == "Memory monitoring is not supported in this environment"

\* Configurations given to getInstance: none, the test suite's (its capacity
\* of 5 brought under MaxBuffer), and one with capacity 1 at level DEBUG.
InitPartials ==
  { EmptyPartial,
    With([minLevel |-> "INFO", persistLogs |-> TRUE, maxLogSize |-> 2,
          rotationInterval |-> 1000, trackMemory |-> TRUE]),
    With([minLevel |-> "DEBUG", maxLogSize |-> 1]) }

\* The state the constructor leaves for the configuration partial p0.
InitWith(p0) ==
  LET cfg == mergeWithDefaults(p0)
      empty == [ logBuffer |-> <<>>, pushed |-> <<>>, consoleOut |-> <<>>,
                 currentLogSize |-> 0, rotInFlight |-> 0 ]
  IN
  /\ config = cfg
  /\ currentGroup = NULL
  /\ currentLogPath = NULL
  /\ clock = 1
  /\ backupFailures = 0
  /\ backupBackoffTime = INITIAL_BACKOFF_TIME
  /\ sinceAttempt = MAX_BACKOFF_TIME      \* lastBackupAttempt = 0
  /\ inFlight = 0
  /\ pendingHandlers = 0
  /\ performanceMarks = [o \in Operations |-> <<>>]
  /\ performanceHistory = [o \in Operations |-> <<>>]
  \* initialize()
  /\ rotationIntervalId = IF cfg.persistLogs THEN setupLogRotation(cfg) ELSE NoTimer
  /\ memoryCheckIntervalId = IF cfg.trackMemory THEN setupMemoryMonitoring(cfg) ELSE NoTimer
  /\ backupIntervalId = IF cfg.backupInterval > 0 THEN setupLogBackup(cfg) ELSE NoTimer
  /\ \E bytes \in EntrySizes :
       LET S == IF cfg.trackMemory /\ ~memAvailable
                  THEN logInto(empty, cfg, "DEBUG", NoMemoryMsg, bytes)
                  ELSE empty
       IN /\ logBuffer = S.logBuffer
          /\ pushed = S.pushed
          /\ consoleOut = S.consoleOut
          /\ currentLogSize = S.currentLogSize
          /\ rotInFlight = S.rotInFlight
  /\ lastOp = [op |-> "new"]
  /\ cleanedUp = FALSE

Init ==
  /\ memAvailable \in BOOLEAN
  /\ \E p0 \in InitPartials : InitWith(p0)

(***************************************************************************)
(* The caller's operations.                                                *)
(***************************************************************************)
\* log(level, message, context) and its wrappers debug, info, warn.
LogContext(level, message, context, bytes) ==
  LET S == logWith(LogState, config, level, message, context, bytes) IN
  /\ WithinBounds(S)
  /\ SetLogState(S)
  /\ lastOp' = [op |-> "log", level |-> level, message |-> message, context |-> context]
  /\ UNCHANGED <<config, timerVars, backupVars, currentGroup, envVars, perfVars, cleanedUp>>

\* log(level, message)
Log(level, message, bytes) == LogContext(level, message, Undefined, bytes)

\* error(message, undefined, context)
ErrorContext(message, context) ==
  LET S == errorWith(message, Undefined, context) IN
  /\ WithinBounds(S)
  /\ SetLogState(S)
  /\ lastOp' = [op |-> "error", message |-> message, context |-> context]
  /\ UNCHANGED <<config, timerVars, backupVars, currentGroup, envVars, perfVars, cleanedUp>>

\* error(message)
Error(message) == ErrorContext(message, Undefined)

NestedMsg == "Nested log groups are not supported"

\* The mutant of startLogGroup that makes the new name the active group even
\* when a group is active.
StartLogGroupReplace(name) ==
  /\ \E bytes \in EntrySizes :
       LET S == IF currentGroup # NULL
                  THEN log(config, "WARN", NestedMsg, bytes)
                  ELSE [LogState EXCEPT !.consoleOut = <<"group">>]
       IN WithinBounds(S) /\ SetLogState(S)
  /\ currentGroup' = name
  /\ lastOp' = [op |-> "startLogGroup", name |-> name, nested |-> currentGroup # NULL]
  /\ UNCHANGED <<config, timerVars, backupVars, envVars, perfVars, cleanedUp>>

\* The mutant of startLogGroup that returns without a warning when a group
\* is active.
StartLogGroupSilent(name) ==
  /\ SetLogState([LogState EXCEPT !.consoleOut =
                    IF currentGroup # NULL THEN <<>> ELSE <<"group">>])
  /\ currentGroup' = IF currentGroup # NULL THEN currentGroup ELSE name
  /\ lastOp' = [op |-> "startLogGroup", name |-> name, nested |-> currentGroup # NULL]
  /\ UNCHANGED <<config, timerVars, backupVars, envVars, perfVars, cleanedUp>>

\* startLogGroup(name)
StartLogGroup(name) ==
  /\ \E bytes \in EntrySizes :
       LET S == IF currentGroup # NULL
                  THEN log(config, "WARN", NestedMsg, bytes)
                  ELSE [LogState EXCEPT !.consoleOut = <<"group">>]
       IN WithinBounds(S) /\ SetLogState(S)
  /\ currentGroup' = IF currentGroup # NULL THEN currentGroup ELSE name
  /\ lastOp' = [op |-> "startLogGroup", name |-> name, nested |-> currentGroup # NULL]
  /\ UNCHANGED <<config, timerVars, backupVars, envVars, perfVars, cleanedUp>>

\* The mutant of endLogGroup that leaves the group active.
EndLogGroupKeeping ==
  /\ SetLogState([LogState EXCEPT !.consoleOut =
                    IF currentGroup # NULL THEN <<"groupEnd">> ELSE <<>>])
  /\ currentGroup' = currentGroup
  /\ lastOp' = [op |-> "endLogGroup"]
  /\ UNCHANGED <<config, timerVars, backupVars, envVars, perfVars, cleanedUp>>

\* endLogGroup()
EndLogGroup ==
  /\ SetLogState([LogState EXCEPT !.consoleOut =
                    IF currentGroup # NULL THEN <<"groupEnd">> ELSE <<>>])
  /\ currentGroup' = NULL
  /\ lastOp' = [op |-> "endLogGroup"]
  /\ UNCHANGED <<config, timerVars, backupVars, envVars, perfVars, cleanedUp>>

\* The mutant of clearLogs that leaves the buffer as it is.
clearLogsKeep(S) == S

\* Logger.clearLogs: the log state after the call.
clearLogs(S) == [S EXCEPT !.logBuffer = <<>>, !.pushed = <<>>]

\* clearLogs()
ClearLogs ==
  /\ SetLogState(clearLogs(LogState))
  /\ lastOp' = [op |-> "clearLogs"]
  /\ UNCHANGED <<config, timerVars, backupVars, currentGroup, envVars, perfVars, cleanedUp>>

\* The mutant of resetBackupFailureTracking that keeps the backoff interval.
resetFailuresOnly ==
  /\ backupFailures' = 0
  /\ UNCHANGED backupBackoffTime

\* Logger.resetBackupFailureTracking
resetBackupFailureTracking ==
  /\ backupFailures' = 0
  /\ backupBackoffTime' = INITIAL_BACKOFF_TIME

\* The mutant of the merge in setConfig that merges onto the current
\* configuration.
setConfigMergeCurrent(partial) == mergeOnto(config, partial)

\* this.config = this.mergeWithDefaults(partial) in setConfig.
setConfigMerge(partial) == mergeWithDefaults(partial)

\* The conditions under which setConfig re-arms each trigger.
memoryFieldsDiffer(partial, old) ==
  \/ partial.memoryCheckInterval # <<old.memoryCheckInterval>>
  \/ partial.trackMemory # <<old.trackMemory>>
backupFieldsDiffer(partial, old) ==
  partial.backupInterval # <<old.backupInterval>>
rotationFieldsDiffer(partial, old) ==
  \/ partial.rotationInterval # <<old.rotationInterval>>
  \/ partial.persistLogs # <<old.persistLogs>>

\* The three periodic triggers, and whether setConfig clears and sets up
\* again the timer of one of them.
Triggers == {"memory", "backup", "rotation"}
fieldsDiffer(trigger, partial, old) ==
  CASE trigger = "memory" -> memoryFieldsDiffer(partial, old)
    [] trigger = "backup" -> backupFieldsDiffer(partial, old)
    [] trigger = "rotation" -> rotationFieldsDiffer(partial, old)

\* setConfig(partial)
SetConfig(partial) ==
  LET old == config
      cfg == setConfigMerge(partial)
  IN
  /\ config' = cfg
  /\ IF memoryFieldsDiffer(partial, old)
       THEN /\ memoryCheckIntervalId' =
                 IF cfg.trackMemory THEN setupMemoryMonitoring(cfg) ELSE NoTimer
            /\ \E bytes \in EntrySizes :
                 LET S == IF cfg.trackMemory /\ ~memAvailable
                            THEN log(cfg, "DEBUG", NoMemoryMsg, bytes)
                            ELSE LogState
                 IN WithinBounds(S) /\ SetLogState([S EXCEPT !.pushed = <<>>])
       ELSE /\ UNCHANGED memoryCheckIntervalId
            /\ SetLogState([LogState EXCEPT !.pushed = <<>>])
  /\ IF backupFieldsDiffer(partial, old)
       THEN /\ backupIntervalId' =
                 IF cfg.backupInterval > 0 THEN setupLogBackup(cfg) ELSE NoTimer
            /\ IF cfg.backupInterval > 0
                 THEN resetBackupFailureTracking
                 ELSE UNCHANGED <<backupFailures, backupBackoffTime>>
       ELSE UNCHANGED <<backupIntervalId, backupFailures, backupBackoffTime>>
  /\ IF rotationFieldsDiffer(partial, old)
       THEN rotationIntervalId' =
              IF cfg.persistLogs THEN setupLogRotation(cfg) ELSE NoTimer
       ELSE UNCHANGED rotationIntervalId
  /\ lastOp' = [op |-> "setConfig", partial |-> partial, old |-> old,
                touched |-> {t \in Triggers : fieldsDiffer(t, partial, old)}]
  /\ cleanedUp' = FALSE
  /\ UNCHANGED <<sinceAttempt, inFlight, pendingHandlers, currentGroup, envVars, perfVars>>

\* How many of the three handles are armed.
Armed ==
  Cardinality({i \in 1..3 : <<memoryCheckIntervalId, backupIntervalId,
                              rotationIntervalId>>[i] # NoTimer})

\* cleanup()
Cleanup ==
  /\ memoryCheckIntervalId' = NoTimer
  /\ backupIntervalId' = NoTimer
  /\ rotationIntervalId' = NoTimer
  /\ currentGroup' = NULL
  /\ SetLogState([clearLogs(LogState) EXCEPT !.consoleOut =
                    IF currentGroup # NULL THEN <<"groupEnd">> ELSE <<>>])
  /\ lastOp' = LET again == lastOp.op = "cleanup" IN
                [ op        |-> "cleanup",
                  again     |-> again,
                  cancelled |-> Armed + (IF again THEN lastOp.cancelled ELSE 0),
                  dropped   |-> Len(logBuffer) + (IF again THEN lastOp.dropped ELSE 0),
                  closed    |-> currentGroup # NULL \/ (again /\ lastOp.closed) ]
  /\ cleanedUp' = TRUE
  /\ UNCHANGED <<config, backupVars, envVars, perfVars>>

(***************************************************************************)
(* Performance measurements.                                               *)
(***************************************************************************)
\* What reading an array past its end gives (undefined).
Missing == -1

\* A number that is the quotient of two integers.
Quot(a, b) == [type |-> "number", num |-> a, den |-> b]

\* The mutant of the sort that leaves the measurements in recording order.
sortNone(measurements) == measurements

\* [...measurements].sort((a, b) => a - b)
RECURSIVE insertSorted(_, _)
insertSorted(x, sorted) ==
  IF sorted = <<>> THEN <<x>>
  ELSE IF x <= Head(sorted) THEN <<x>> \o sorted
  ELSE <<Head(sorted)>> \o insertSorted(x, Tail(sorted))
RECURSIVE sortAscending(_)
sortAscending(measurements) ==
  IF measurements = <<>> THEN <<>>
  ELSE insertSorted(Head(measurements), sortAscending(Tail(measurements)))

\* sorted[Math.floor(count * percent / 100)]; the product in floating point
\* has the integer part of the exact one for the four fractions used and
\* every count up to 5000.
percentileOf(sorted, percent) ==
  LET index == (Len(sorted) * percent) \div 100 IN
  IF index < Len(sorted) THEN sorted[index + 1] ELSE Missing

RECURSIVE sum(_)
sum(measurements) ==
  IF measurements = <<>> THEN 0 ELSE Head(measurements) + sum(Tail(measurements))

\* Logger.calculatePerformanceMetrics for an operation with the given
\* measurements.
calculatePerformanceMetrics(measurements, operation) ==
  IF measurements = <<>>
    THEN [ duration |-> 0, startTime |-> 0, endTime |-> 0, operation |-> operation,
           percentiles |-> [p50 |-> 0, p90 |-> 0, p95 |-> 0, p99 |-> 0],
           count |-> 0, min |-> 0, max |-> 0, avg |-> Quot(0, 1) ]
    ELSE LET sorted == sortAscending(measurements)
             count == Len(sorted)
         IN [ duration |-> measurements[Len(measurements)],
              startTime |-> 0, endTime |-> 0, operation |-> operation,
              percentiles |-> [ p50 |-> percentileOf(sorted, 50),
                                p90 |-> percentileOf(sorted, 90),
                                p95 |-> percentileOf(sorted, 95),
                                p99 |-> percentileOf(sorted, 99) ],
              count |-> count, min |-> sorted[1], max |-> sorted[count],
              avg |-> Quot(sum(sorted), count) ]

\* The mutant of recordPerformanceMeasurement that drops the newest
\* measurements instead of the oldest.
recordKeepingOldest(measurements, cfg, duration) ==
  LET all == Append(measurements, duration)
  IN IF Len(all) > cfg.performanceHistory
       THEN SubSeq(all, 1, IF cfg.performanceHistory > 0 THEN cfg.performanceHistory ELSE 0)
       ELSE all

\* Logger.recordPerformanceMeasurement: the measurements of the operation
\* after the call.
recordPerformanceMeasurement(measurements, cfg, duration) ==
  LET all == Append(measurements, duration)
      extra == Len(all) - cfg.performanceHistory
  IN IF extra > 0 THEN SubSeq(all, Min(extra, Len(all)) + 1, Len(all)) ELSE all

\* The metrics as the context value endMeasurement passes to log().
metricsValue(m) ==
  Obj(0, << Prop("duration", Num(m.duration)),
            Prop("startTime", Num(m.startTime)),
            Prop("endTime", Num(m.endTime)),
            Prop("operation", Str(m.operation)),
            Prop("percentiles", Obj(0, << Prop("p50", Num(m.percentiles.p50)),
                                          Prop("p90", Num(m.percentiles.p90)),
                                          Prop("p95", Num(m.percentiles.p95)),
                                          Prop("p99", Num(m.percentiles.p99)) >>)),
            Prop("count", Num(m.count)),
            Prop("min", Num(m.min)),
            Prop("max", Num(m.max)),
            Prop("avg", m.avg) >>)

\* The mutant of startMeasurement that keeps a start already recorded.
StartMeasurementKeepingFirst(operation, now) ==
  /\ performanceMarks' = IF config.trackPerformance /\ performanceMarks[operation] = <<>>
                           THEN [performanceMarks EXCEPT ![operation] = <<now>>]
                           ELSE performanceMarks
  /\ SetLogState(LogState)
  /\ lastOp' = [op |-> "startMeasurement", operation |-> operation, now |-> now,
                replaced |-> performanceMarks[operation]]
  /\ UNCHANGED <<config, timerVars, backupVars, currentGroup, envVars,
                 performanceHistory, cleanedUp>>

\* startMeasurement(operation) at clock value now
StartMeasurement(operation, now) ==
  /\ performanceMarks' = IF config.trackPerformance
                           THEN [performanceMarks EXCEPT ![operation] = <<now>>]
                           ELSE performanceMarks
  /\ SetLogState(LogState)
  /\ lastOp' = [op |-> "startMeasurement", operation |-> operation, now |-> now,
                replaced |-> performanceMarks[operation]]
  /\ UNCHANGED <<config, timerVars, backupVars, currentGroup, envVars,
                 performanceHistory, cleanedUp>>

\* The mutant of endMeasurement that measures from clock value 0 when no
\* start is recorded.
EndMeasurementFromZero(operation, elapsed) ==
  LET mark == performanceMarks[operation]
      startTime == IF mark # <<>> THEN mark[1] ELSE 0
      endTime == startTime + elapsed
      duration == endTime - startTime
      measurements == recordPerformanceMeasurement(
                        performanceHistory[operation], config, duration)
      metrics == [calculatePerformanceMetrics(measurements, operation)
                    EXCEPT !.startTime = startTime, !.endTime = endTime,
                           !.duration = duration]
  IN
  /\ \E bytes \in EntrySizes :
       LET S == logWith(LogState, config, "INFO", "Operation completed: " \o operation,
                        Obj(0, <<Prop("performance", metricsValue(metrics))>>), bytes)
       IN WithinBounds(S) /\ SetLogState(S)
  /\ performanceHistory' = [performanceHistory EXCEPT ![operation] = measurements]
  /\ performanceMarks' = [performanceMarks EXCEPT ![operation] = <<>>]
  /\ lastOp' = [op |-> "endMeasurement", operation |-> operation,
                found |-> mark # <<>>, metrics |-> metrics]
  /\ UNCHANGED <<config, timerVars, backupVars, currentGroup, envVars, cleanedUp>>

\* endMeasurement(operation), elapsed after the start that is recorded
EndMeasurement(operation, elapsed) ==
  LET mark == performanceMarks[operation]
      found == mark # <<>> /\ mark[1] # 0
  IN
  /\ \E bytes \in EntrySizes :
       IF ~found
         THEN /\ LET S == log(config, "WARN",
                              "No start time found for operation: " \o operation, bytes)
                 IN WithinBounds(S) /\ SetLogState(S)
              /\ lastOp' = [op |-> "endMeasurement", operation |-> operation,
                            found |-> FALSE]
              /\ UNCHANGED perfVars
         ELSE LET startTime == mark[1]
                  endTime == startTime + elapsed
                  duration == endTime - startTime
                  measurements == recordPerformanceMeasurement(
                                    performanceHistory[operation], config, duration)
                  metrics == [calculatePerformanceMetrics(measurements, operation)
                                EXCEPT !.startTime = startTime, !.endTime = endTime,
                                       !.duration = duration]
                  S == logWith(LogState, config, "INFO",
                               "Operation completed: " \o operation,
                               Obj(0, <<Prop("performance", metricsValue(metrics))>>), bytes)
              IN /\ WithinBounds(S) /\ SetLogState(S)
                 /\ performanceHistory' = [performanceHistory EXCEPT ![operation] = measurements]
                 /\ performanceMarks' = [performanceMarks EXCEPT ![operation] = <<>>]
                 /\ lastOp' = [op |-> "endMeasurement", operation |-> operation,
                               found |-> TRUE, metrics |-> metrics]
  /\ UNCHANGED <<config, timerVars, backupVars, currentGroup, envVars, cleanedUp>>

(***************************************************************************)
(* Export.                                                                 *)
(*                                                                         *)
(* exportLogs('json') hands the buffer itself to safeStringify, which      *)
(* walks it with sanitizeContext and prints the result with                *)
(* JSON.stringify. The objects of the buffer are told apart by where they  *)
(* lie in it: the contexts log() and error() store are copies made for     *)
(* one entry, while the performance field is the caller's own object.      *)
(***************************************************************************)
\* A value stored in the buffer at path, each of its objects being its own;
\* the property or item at place i of the object at path lies at path \o <<i>>.
RECURSIVE stored(_, _)
RECURSIVE storedEntries(_, _, _)
RECURSIVE storedItems(_, _, _)
stored(v, path) ==
  CASE v.type = "object" -> Obj(path, storedEntries(v.entries, path, 1))
    [] v.type = "array" -> Arr(path, storedItems(v.items, path, 1))
    [] OTHER -> v
storedEntries(entries, path, i) ==
  IF entries = <<>> THEN <<>>
  ELSE <<Prop(Head(entries).key, stored(Head(entries).value, path \o <<i>>))>>
       \o storedEntries(Tail(entries), path, i + 1)
storedItems(items, path, i) ==
  IF items = <<>> THEN <<>>
  ELSE <<stored(Head(items), path \o <<i>>)>> \o storedItems(Tail(items), path, i + 1)

\* A value of the caller's, its objects being the same wherever they occur.
RECURSIVE callers(_)
RECURSIVE callersEntries(_)
RECURSIVE callersItems(_)
callers(v) ==
  CASE v.type = "object" -> Obj(<<1, v.id>>, callersEntries(v.entries))
    [] v.type = "array" -> Arr(<<1, v.id>>, callersItems(v.items))
    [] OTHER -> v
callersEntries(entries) ==
  IF entries = <<>> THEN <<>>
  ELSE <<Prop(Head(entries).key, callers(Head(entries).value))>>
       \o callersEntries(Tail(entries))
callersItems(items) ==
  IF items = <<>> THEN <<>>
  ELSE <<callers(Head(items))>> \o callersItems(Tail(items))

\* The LogEntry object log() and error() build, as the value it is to
\* sanitizeContext: its properties in the order of their creation (source,
\* a text of the runtime's call stack, is left out).
entryValue(entry, path) ==
  Obj(path,
      << Prop("timestamp", Num(entry.timestamp)),
         Prop("level", Str(entry.level)),
         Prop("message", Str(entry.message)),
         Prop("context", stored(entry.context, path \o <<1>>)),
         Prop("group", IF entry.group = NULL THEN Undefined ELSE Str(entry.group)) >>
      \o (IF entry.performance = Undefined THEN <<>>
          ELSE <<Prop("performance", callers(entry.performance))>>)
      \o (IF entry.memory
            THEN <<Prop("memory", Obj(path \o <<2>>, << Prop("heapUsed", Num(0)),
                                                        Prop("heapTotal", Num(0)),
                                                        Prop("external", Num(0)) >>))>>
            ELSE <<>>))

\* this.logBuffer as a value.
RECURSIVE entryValues(_, _)
entryValues(buf, i) ==
  IF buf = <<>> THEN <<>>
  ELSE <<entryValue(Head(buf), <<0, i>>)>> \o entryValues(Tail(buf), i + 1)
bufferValue(buf) == Arr(<<0>>, entryValues(buf, 1))

\* The decimal digits of a natural number.
Digits == "0123456789"
RECURSIVE naturalText(_)
naturalText(n) ==
  IF n < 10 THEN SubSeq(Digits, n + 1, n + 1)
  ELSE naturalText(n \div 10) \o SubSeq(Digits, (n % 10) + 1, (n % 10) + 1)

\* The digits after the decimal point of a / b for 0 <= a < b, at most
\* places of them (JSON.stringify prints the shortest text that reads back
\* as the same double; the texts searched for here hold no digit).
RECURSIVE fractionText(_, _, _)
fractionText(a, b, places) ==
  IF a = 0 \/ places = 0 THEN ""
  ELSE naturalText((a * 10) \div b) \o fractionText((a * 10) % b, b, places - 1)

\* The text JSON.stringify prints for a number.
numberText(v) ==
  LET den == IF "den" \in DOMAIN v THEN v.den ELSE 1
      abs == IF v.num < 0 THEN 0 - v.num ELSE v.num
      whole == naturalText(abs \div den)
      frac == fractionText(abs % den, den, FractionPlaces)
  IN (IF v.num < 0 THEN "-" ELSE "") \o whole \o (IF frac = "" THEN "" ELSE "." \o frac)

\* The text JSON.stringify prints for a string: quoted, with the quote, the
\* backslash and the control characters escaped.
escapeChar(c) ==
  CASE c = "\"" -> "\\\""
    [] c = "\\" -> "\\\\"
    [] c = "\n" -> "\\n"
    [] c = "\r" -> "\\r"
    [] c = "\t" -> "\\t"
    [] c = "\f" -> "\\f"
    [] OTHER -> c
RECURSIVE escapeText(_)
escapeText(s) == IF s = "" THEN "" ELSE escapeChar(Head(s)) \o escapeText(Tail(s))
quote(s) == "\"" \o escapeText(s) \o "\""

RECURSIVE spaces(_)
spaces(n) == IF n = 0 THEN "" ELSE " " \o spaces(n - 1)

\* JSON.stringify(v, replacer, 2) for a value at indentation indent: the
\* replacer changes only bigints and Errors, which sanitizeContext leaves
\* none of. A property whose value is undefined is not printed.
RECURSIVE jsonText(_, _)
RECURSIVE jsonProperties(_, _, _)
RECURSIVE jsonItems(_, _, _)
jsonText(v, indent) ==
  CASE v.type = "object" ->
         LET inner == jsonProperties(v.entries, indent + 2, TRUE)
         IN IF inner = "" THEN "{}" ELSE "{" \o inner \o "\n" \o spaces(indent) \o "}"
    [] v.type = "array" ->
         IF v.items = <<>> THEN "[]"
         ELSE "[" \o jsonItems(v.items, indent + 2, TRUE) \o "\n" \o spaces(indent) \o "]"
    [] v.type = "string" -> quote(v.text)
    [] v.type = "number" -> numberText(v)
    [] OTHER -> "null"
jsonProperties(entries, indent, first) ==
  IF entries = <<>> THEN ""
  ELSE LET e == Head(entries) IN
       IF e.value.type = "undefined" THEN jsonProperties(Tail(entries), indent, first)
       ELSE (IF first THEN "" ELSE ",") \o "\n" \o spaces(indent)
            \o quote(e.key) \o ": " \o jsonText(e.value, indent)
            \o jsonProperties(Tail(entries), indent, FALSE)
jsonItems(items, indent, first) ==
  IF items = <<>> THEN ""
  ELSE (IF first THEN "" ELSE ",") \o "\n" \o spaces(indent)
       \o jsonText(Head(items), indent) \o jsonItems(Tail(items), indent, FALSE)

\* String(obj) for a value that is no object.
stringOf(obj) ==
  CASE obj.type = "string" -> obj.text
    [] obj.type = "number" -> numberText(obj)
    [] OTHER -> obj.type

\* The value safeStringify gives to JSON.stringify.
safeValue(cfg, obj) ==
  IF obj.type \in {"object", "array"} THEN sanitizeContext(cfg, obj)
  ELSE Obj(<<>>, <<Prop("value", Str(sanitizeString(stringOf(obj))))>>)

\* JSON.parse(JSON.stringify(v)): a property whose value is undefined is
\* left out, an undefined array item is null, and the objects are new ones
\* (they carry no identity).
RECURSIVE parsed(_)
RECURSIVE parsedEntries(_)
RECURSIVE parsedItems(_)
parsed(v) ==
  CASE v.type = "object" -> Obj(<<>>, parsedEntries(v.entries))
    [] v.type = "array" -> Arr(<<>>, parsedItems(v.items))
    [] OTHER -> v
parsedEntries(entries) ==
  IF entries = <<>> THEN <<>>
  ELSE (IF Head(entries).value.type = "undefined" THEN <<>>
        ELSE <<Prop(Head(entries).key, parsed(Head(entries).value))>>)
       \o parsedEntries(Tail(entries))
parsedItems(items) ==
  IF items = <<>> THEN <<>>
  ELSE <<IF Head(items).type = "undefined" THEN Null ELSE parsed(Head(items))>>
       \o parsedItems(Tail(items))

\* JSON.parse(exportLogs('json')): the records of the exported array.
exportedRecords(cfg, buf) == parsed(safeValue(cfg, bufferValue(buf))).items

\* Logger.safeStringify
safeStringify(cfg, obj) == jsonText(safeValue(cfg, obj), 0)

(***************************************************************************)
(* Filtering. The options of filterLogs are given as a record of options,  *)
(* <<>> for one the caller leaves out and <<v>> for one set to v.          *)
(***************************************************************************)
NoOptions == [level |-> <<>>, startTime |-> <<>>, endTime |-> <<>>, search |-> <<>>, group |-> <<>>]

\* if (options.x): the option is given and its value is truthy, for a text
\* and for a number.
givenText(option) == option # <<>> /\ option[1] # ""
givenNumber(option) == option # <<>> /\ option[1] # 0

\* The callback of filterLogs: whether entry is kept.
keeps(cfg, options, entry) ==
  IF givenText(options.level) /\ indexOf(entry.level) < indexOf(options.level[1]) THEN FALSE
  ELSE IF givenNumber(options.startTime) /\ entry.timestamp < options.startTime[1] THEN FALSE
  ELSE IF givenNumber(options.endTime) /\ entry.timestamp > options.endTime[1] THEN FALSE
  ELSE IF givenText(options.group) /\ entry.group # options.group[1] THEN FALSE
  ELSE IF givenText(options.search) THEN
    LET searchLower == toLowerCase(options.search[1])
        context == IF entry.context = Undefined THEN Str("") ELSE entry.context
    IN \/ includes(toLowerCase(entry.message), searchLower)
       \/ includes(toLowerCase(safeStringify(cfg, context)), searchLower)
  ELSE TRUE

\* Logger.filterLogs
filterLogs(cfg, buf, options) == SelectSeq(buf, LAMBDA entry : keeps(cfg, options, entry))

\* filterLogs(options)
FilterLogs(options) ==
  /\ SetLogState(LogState)
  /\ lastOp' = [op |-> "filterLogs", options |-> options,
                result |-> filterLogs(config, logBuffer, options)]
  /\ UNCHANGED <<config, timerVars, backupVars, currentGroup, envVars, perfVars, cleanedUp>>

\* Time passes.
Tick ==
  /\ clock < MaxClock
  /\ clock' = clock + 1
  /\ SetLogState(LogState)
  /\ lastOp' = [op |-> "tick"]
  /\ UNCHANGED <<config, timerVars, backupVars, currentGroup, currentLogPath, memAvailable,
                 perfVars, cleanedUp>>

(***************************************************************************)
(* The periodic triggers and the backup.                                   *)
(***************************************************************************)
\* The memory interval fires: checkMemoryUsage().
MemoryCheck ==
  /\ memoryCheckIntervalId.kind = "interval"
  /\ \E bytes \in EntrySizes :
       LET S == IF memAvailable
                  THEN log(config, "INFO", "Memory Usage Check", bytes)
                  ELSE LogState
       IN WithinBounds(S) /\ SetLogState(S)
  /\ lastOp' = [op |-> "memoryCheck"]
  /\ UNCHANGED <<config, timerVars, backupVars, currentGroup, envVars, perfVars, cleanedUp>>

\* The rotation interval fires: rotateLogs().
RotationTick ==
  /\ rotationIntervalId.kind = "interval"
  /\ SetLogState([LogState EXCEPT !.logBuffer = rotateLogs(logBuffer, config)])
  /\ lastOp' = [op |-> "rotationTick"]
  /\ UNCHANGED <<config, timerVars, backupVars, currentGroup, envVars, perfVars, cleanedUp>>

\* The mutant of inBackoff that never finds a backoff period.
inBackoffNever == FALSE

\* Whether backupLogs() finds itself inside the backoff period.
inBackoff == backupFailures > 0 /\ sinceAttempt < backupBackoffTime

\* The backup interval fires: backupLogs() up to its await. Inside the
\* backoff period it logs at DEBUG and returns; otherwise it exports the
\* buffer and starts the write to the external store.
BackupTick ==
  /\ backupIntervalId.kind = "interval"
  /\ IF inBackoff
       THEN /\ \E bytes \in EntrySizes :
                 LET S == log(config, "DEBUG", "Skipping backup due to backoff period", bytes)
                 IN WithinBounds(S) /\ SetLogState(S)
            /\ UNCHANGED inFlight
       ELSE /\ inFlight < MaxInFlight
            /\ inFlight' = inFlight + 1
            /\ SetLogState(LogState)
  /\ lastOp' = [op |-> "backupTick", skipped |-> inBackoff]
  /\ UNCHANGED <<config, timerVars, backupFailures, backupBackoffTime, sinceAttempt,
                 pendingHandlers, currentGroup, envVars, perfVars, cleanedUp>>

\* The external store resolves: backupLogs() after its await, try branch.
BackupSuccess ==
  /\ inFlight > 0
  /\ inFlight' = inFlight - 1
  /\ \E bytes \in EntrySizes :
       LET S == log(config, "INFO", "Logs backed up successfully", bytes)
       IN WithinBounds(S) /\ SetLogState(S)
  /\ resetBackupFailureTracking
  /\ lastOp' = [ op             |-> "backupSuccess",
                 failuresBefore |-> backupFailures,
                 backoffBefore  |-> backupBackoffTime ]
  /\ UNCHANGED <<config, timerVars, sinceAttempt, pendingHandlers, currentGroup,
                 envVars, perfVars, cleanedUp>>

\* The Error chrome.storage.local.set rejects with.
StoreError ==
  Obj(0, <<Prop("message", Str("Storage error")), Prop("stack", Str("Error: Storage error"))>>)

\* The external store rejects: backupLogs() after its await, catch branch.
BackupFailure ==
  /\ inFlight > 0
  /\ backupFailures < MaxFailures
  /\ pendingHandlers < MaxPending
  /\ inFlight' = inFlight - 1
  /\ backupFailures' = backupFailures + 1
  /\ sinceAttempt' = 0
  /\ LET S == errorWith("Failed to backup logs", StoreError, Undefined)
     IN WithinBounds(S) /\ SetLogState(S)
  /\ pendingHandlers' = pendingHandlers + 1
  /\ lastOp' = [op |-> "backupFailure"]
  /\ UNCHANGED <<config, timerVars, backupBackoffTime, currentGroup, envVars, perfVars, cleanedUp>>

\* Logger.handleBackupFailure
handleBackupFailure(skipIncrement) ==
  LET failures == IF skipIncrement THEN backupFailures ELSE backupFailures + 1 IN
  /\ backupFailures' = failures
  /\ sinceAttempt' = IF skipIncrement THEN sinceAttempt ELSE 0
  /\ IF failures >= MAX_BACKUP_FAILURES
       THEN /\ \E bytes \in EntrySizes :
                 LET S == log(config, "WARN", "Backup disabled due to repeated failures", bytes)
                 IN WithinBounds(S) /\ SetLogState(S)
            /\ backupIntervalId' = NoTimer
            /\ UNCHANGED backupBackoffTime
       ELSE LET backoff == Min(backupBackoffTime * 2, MAX_BACKOFF_TIME) IN
            /\ backupBackoffTime' = backoff
            /\ \E bytes \in EntrySizes :
                 LET S == log(config, "WARN", "Backup failed, implementing backoff", bytes)
                 IN WithinBounds(S) /\ SetLogState(S)
            /\ backupIntervalId' =
                 IF backupIntervalId # NoTimer THEN Timeout(backoff) ELSE NoTimer

\* The zero-delay timer backupLogs() set in its catch branch fires.
DeferredFailureHandler ==
  /\ pendingHandlers > 0
  /\ pendingHandlers' = pendingHandlers - 1
  /\ handleBackupFailure(TRUE)
  /\ lastOp' = [op |-> "handleBackupFailure"]
  /\ UNCHANGED <<config, memoryCheckIntervalId, rotationIntervalId, inFlight,
                 currentGroup, envVars, perfVars, cleanedUp>>

\* The backoff timeout handleBackupFailure() set fires: setupLogBackup().
BackoffTimeout ==
  /\ backupIntervalId.kind = "timeout"
  /\ sinceAttempt >= backupIntervalId.delay
  /\ backupIntervalId' = setupLogBackup(config)
  /\ SetLogState(LogState)
  /\ lastOp' = [op |-> "backoffTimeout"]
  /\ UNCHANGED <<config, memoryCheckIntervalId, rotationIntervalId, backupVars,
                 currentGroup, envVars, perfVars, cleanedUp>>

\* Time passes: Date.now() - lastBackupAttempt reaches the next point.
AdvanceTime ==
  /\ sinceAttempt < MAX_BACKOFF_TIME
  /\ sinceAttempt' = CHOOSE t \in TimePoints :
                       /\ t > sinceAttempt
                       /\ \A u \in TimePoints : u > sinceAttempt => t <= u
  /\ SetLogState(LogState)
  /\ lastOp' = [op |-> "advanceTime"]
  /\ UNCHANGED <<config, timerVars, backupFailures, backupBackoffTime, inFlight,
                 pendingHandlers, currentGroup, envVars, perfVars, cleanedUp>>

(***************************************************************************)
(* The logger's core: the caller's logging, reconfiguration and shutdown,  *)
(* with the memory and rotation triggers.                                  *)
(***************************************************************************)
\* Partials given to setConfig.
Partials ==
  { EmptyPartial,
    With([minLevel |-> "DEBUG"]),
    With([minLevel |-> "ERROR"]),
    With([minLevel |-> "INVALID", maxLogSize |-> -1]),
    With([maxLogSize |-> 2]),
    With([maxLogSize |-> 1, trackMemory |-> FALSE]),
    With([format |-> FormatWith([timestamp |-> FALSE])]),
    With([backupInterval |-> DEFAULT_backupInterval]),
    With([backupInterval |-> 0, persistLogs |-> FALSE]) }

Next ==
  \/ \E level \in LogLevels, message \in Messages, bytes \in EntrySizes :
       Log(level, message, bytes)
  \/ \E message \in Messages : Error(message)
  \/ ClearLogs
  \/ \E partial \in Partials : SetConfig(partial)
  \/ Cleanup
  \/ MemoryCheck
  \/ RotationTick

Spec == Init /\ [][Next]_vars

(***************************************************************************)
(* The logger with its backup: one caller logging at INFO, reconfiguration *)
(* and shutdown, against the backup trigger, the external store's answers, *)
(* the deferred failure handler, the backoff timeout and time.             *)
(***************************************************************************)
BackupPartials ==
  { EmptyPartial,
    With([backupInterval |-> DEFAULT_backupInterval]),
    With([backupInterval |-> 0]),
    With([minLevel |-> "WARN", maxLogSize |-> 2]) }

InitBackup ==
  /\ memAvailable = TRUE
  /\ InitWith(EmptyPartial)

NextBackup ==
  \/ \E message \in Messages, bytes \in EntrySizes : Log("INFO", message, bytes)
  \/ \E partial \in BackupPartials : SetConfig(partial)
  \/ Cleanup
  \/ BackupTick
  \/ BackupSuccess
  \/ BackupFailure
  \/ DeferredFailureHandler
  \/ BackoffTimeout
  \/ AdvanceTime

SpecBackup == InitBackup /\ [][NextBackup]_vars

(***************************************************************************)
(* The backup against a store that keeps rejecting, at minimum level ERROR *)
(* (the WARN entries of the failure handling are filtered), up to the      *)
(* point where the backup is disabled.                                     *)
(***************************************************************************)
DisablePartials ==
  { With([minLevel |-> "ERROR"]),
    With([minLevel |-> "ERROR", backupInterval |-> DEFAULT_backupInterval]) }

InitDisable ==
  /\ memAvailable = TRUE
  /\ InitWith(With([minLevel |-> "ERROR"]))

NextDisable ==
  \/ ClearLogs
  \/ \E partial \in DisablePartials : SetConfig(partial)
  \/ BackupTick
  \/ BackupSuccess
  \/ BackupFailure
  \/ DeferredFailureHandler
  \/ BackoffTimeout
  \/ AdvanceTime

SpecDisable == InitDisable /\ [][NextDisable]_vars

(***************************************************************************)
(* The backup against a store that may reject, at minimum level DEBUG:     *)
(* every entry of the backup's own logging is recorded.                    *)
(***************************************************************************)
InitBackoff ==
  /\ memAvailable = TRUE
  /\ InitWith(With([minLevel |-> "DEBUG"]))

NextBackoff ==
  \/ ClearLogs
  \/ BackupTick
  \/ BackupSuccess
  \/ BackupFailure
  \/ DeferredFailureHandler
  \/ BackoffTimeout
  \/ AdvanceTime

SpecBackoff == InitBackoff /\ [][NextBackoff]_vars

(***************************************************************************)
(* The logger configured with a rotation size the byte counter reaches.    *)
(***************************************************************************)
InitRotation ==
  /\ memAvailable = TRUE
  /\ InitWith(With([minLevel |-> "DEBUG", rotation |-> [maxSize |-> 2]]))

NextRotation ==
  \/ \E level \in LogLevels, message \in Messages, bytes \in EntrySizes :
       Log(level, message, bytes)
  \/ \E message \in Messages : Error(message)
  \/ ClearLogs
  \/ RotationTick

SpecRotation == InitRotation /\ [][NextRotation]_vars

(***************************************************************************)
(* The logger with its log groups.                                         *)
(***************************************************************************)
GroupPartials ==
  { EmptyPartial,
    With([minLevel |-> "ERROR", trackMemory |-> FALSE]) }

InitGroups ==
  /\ memAvailable = TRUE
  /\ InitWith(EmptyPartial)

NextGroups ==
  \/ \E level \in {"DEBUG", "WARN"}, message \in Messages, bytes \in EntrySizes :
       Log(level, message, bytes)
  \/ \E message \in Messages : Error(message)
  \/ \E name \in GroupNames : StartLogGroup(name)
  \/ EndLogGroup
  \/ ClearLogs
  \/ \E partial \in GroupPartials : SetConfig(partial)
  \/ Cleanup

SpecGroups == InitGroups /\ [][NextGroups]_vars
(***************************************************************************)
(* A restriction for the sanitiser: log and error calls with contexts of   *)
(* every shape redact() tells apart.                                       *)
(***************************************************************************)
\* Message texts: plain, the test suite's injection attempt, a tab.
Texts == {"m1", "Test\n[REDACTED]\nInjection", "a\tb"}

\* n objects nested in one another under the key "user" around inner.
RECURSIVE Nested(_, _)
Nested(n, inner) ==
  IF n = 0 THEN inner ELSE Obj(n, <<Prop("user", Nested(n - 1, inner))>>)

Credentials == Obj(0, <<Prop("password", Str("secret123"))>>)

\* The test suite's context.
TestContext ==
  Obj(1, << Prop("username", Str("test")),
            Prop("password", Str("secret123")),
            Prop("token", Str("abc123")),
            Prop("data", Obj(2, <<Prop("key", Str("value"))>>)) >>)

\* Sensitive keys, in mixed case, with values that are no strings.
MalformedContext ==
  Obj(1, << Prop("Password", Null),
            Prop("authToken", Undefined),
            Prop("secret", Num(123)),
            Prop("apiKey", Obj(2, <<Prop("id", Num(7))>>)) >>)

\* One object referenced twice.
SharedContext ==
  LET shared == Obj(2, <<Prop("token", Str("abc123"))>>)
  IN Obj(1, <<Prop("first", shared), Prop("second", shared)>>)

ArrayContext ==
  Obj(1, <<Prop("items", Arr(2, <<Obj(3, <<Prop("secretKey", Str("s3cr3t"))>>),
                                  Str("a\nb")>>))>>)

PerformanceContext ==
  Obj(1, <<Prop("performance", Obj(2, <<Prop("duration", Num(5)),
                                        Prop("token", Str("abc123"))>>))>>)

\* An object that refers to itself under the key "self", as the walk of
\* redact() meets it: the object again wherever the reference is followed,
\* n times over. Nothing below depth MAX_REDACT_DEPTH + 1 is ever looked at.
RECURSIVE Unfolded(_)
Unfolded(n) ==
  Obj(1, << Prop("name", Str("test")),
            Prop("self", IF n = 0 THEN Undefined ELSE Unfolded(n - 1)) >>)

\* The test suite's circular context.
CircularContext == Unfolded(MAX_REDACT_DEPTH + 1)

\* The contexts given to the logging calls; the sensitive key of the two
\* nested ones lies in an object at depth MAX_REDACT_DEPTH and one deeper.
Contexts ==
  { TestContext, MalformedContext, SharedContext, ArrayContext, PerformanceContext,
    CircularContext,
    Nested(MAX_REDACT_DEPTH, Credentials), Nested(MAX_REDACT_DEPTH + 1, Credentials) }

\* The contexts given to error().
ErrorContexts == {MalformedContext, Nested(MAX_REDACT_DEPTH + 1, Credentials)}

\* Configurations given to getInstance, with a capacity of one entry: the
\* default sensitive keys, and two keys in another case than the contexts'.
SanitizePartials ==
  { With([maxLogSize |-> 1, trackMemory |-> FALSE]),
    With([maxLogSize |-> 1, trackMemory |-> FALSE, sensitiveKeys |-> <<"PASS", "Secret">>]) }

InitSanitize ==
  /\ memAvailable = TRUE
  /\ \E p0 \in SanitizePartials : InitWith(p0)

NextSanitize ==
  \/ \E context \in Contexts, bytes \in EntrySizes :
       LogContext("INFO", "m1", context, bytes)
  \/ \E context \in ErrorContexts : ErrorContext("m1", context)
  \/ ClearLogs

SpecSanitize == InitSanitize /\ [][NextSanitize]_vars

(***************************************************************************)
(* A restriction for the message text: log and error calls with            *)
(* texts that hold control characters and the redaction marker.            *)
(***************************************************************************)
InitInjection ==
  /\ memAvailable = TRUE
  /\ InitWith(With([trackMemory |-> FALSE]))

NextInjection ==
  \/ \E level \in {"DEBUG", "INFO", "WARN"}, message \in Texts, bytes \in EntrySizes :
       Log(level, message, bytes)
  \/ \E message \in Texts : Error(message)
  \/ ClearLogs

SpecInjection == InitInjection /\ [][NextInjection]_vars

(***************************************************************************)
(* A restriction for the triggers: reconfigurations that name the fields   *)
(* of one trigger only, between logging calls and shutdowns.               *)
(***************************************************************************)
TriggerPartials ==
  { With([memoryCheckInterval |-> 60000]),
    With([trackMemory |-> FALSE]),
    With([backupInterval |-> 7200000]),
    With([backupInterval |-> 0]),
    With([rotationInterval |-> 3600000]),
    With([persistLogs |-> FALSE]) }

InitTriggers ==
  /\ memAvailable = TRUE
  /\ InitWith(EmptyPartial)

NextTriggers ==
  \/ \E partial \in TriggerPartials : SetConfig(partial)
  \/ \E bytes \in EntrySizes : Log("WARN", "m1", bytes)
  \/ Cleanup

SpecTriggers == InitTriggers /\ [][NextTriggers]_vars

(***************************************************************************)
(* A restriction for filterLogs: entries of two levels, with and without   *)
(* a context and a group, recorded at different times, and filters on each *)
(* criterion and on all of them.                                           *)
(***************************************************************************)
FilterMessages == {"Hello world", "Bye"}
FilterContext == Obj(1, <<Prop("user", Str("Hello")), Prop("token", Str("abc123"))>>)

\* The options given to filterLogs.
FilterOptions ==
  { NoOptions,
    [NoOptions EXCEPT !.level = <<"WARN">>],
    [NoOptions EXCEPT !.startTime = <<2>>],
    [NoOptions EXCEPT !.endTime = <<1>>],
    [NoOptions EXCEPT !.group = <<"A">>],
    [NoOptions EXCEPT !.search = <<"HELLO">>],
    [NoOptions EXCEPT !.search = <<"abc">>],
    [NoOptions EXCEPT !.search = <<"value">>],
    [level |-> <<"INFO">>, startTime |-> <<2>>, endTime |-> <<2>>,
     search |-> <<"world">>, group |-> <<"A">>] }

InitFilter ==
  /\ memAvailable = TRUE
  /\ InitWith(With([maxLogSize |-> 2, trackMemory |-> FALSE]))

NextFilter ==
  \/ \E message \in FilterMessages, bytes \in EntrySizes : Log("INFO", message, bytes)
  \/ \E bytes \in EntrySizes : LogContext("INFO", "Bye", FilterContext, bytes)
  \/ \E bytes \in EntrySizes : Log("WARN", "Bye", bytes)
  \/ StartLogGroup("A")
  \/ EndLogGroup
  \/ Tick
  \/ \E options \in FilterOptions : FilterLogs(options)

SpecFilter == InitFilter /\ [][NextFilter]_vars

(***************************************************************************)
(* The logger with its performance tracker: measurements of one operation  *)
(* with a history of MaxHistory durations, at a minimum level that records *)
(* the completion entries and at one that filters them.                    *)
(***************************************************************************)
\* Clock values at startMeasurement and the time an operation takes.
StartTimes == {0, 1000}
Durations == {10, 20, 30, 40, 50}

PerformancePartials ==
  { With([minLevel |-> "ERROR", performanceHistory |-> MaxHistory, trackMemory |-> FALSE]),
    With([maxLogSize |-> 1, performanceHistory |-> MaxHistory, trackMemory |-> FALSE]) }

InitPerformance ==
  /\ memAvailable = TRUE
  /\ \E p0 \in PerformancePartials : InitWith(p0)

NextPerformance ==
  \/ \E operation \in Operations, now \in StartTimes : StartMeasurement(operation, now)
  \/ \E operation \in Operations, elapsed \in Durations : EndMeasurement(operation, elapsed)

SpecPerformance == InitPerformance /\ [][NextPerformance]_vars

(***************************************************************************)
(* The performance tracker under reconfiguration: measurements of one      *)
(* operation while setConfig changes the configured history length. The    *)
(* minimum level ERROR filters the completion entries, so any number of    *)
(* measurements is made.                                                   *)
(***************************************************************************)
\* The history lengths the caller configures.
HistoryLengths == 0..3

HistoryPartials ==
  { With([minLevel |-> "ERROR", performanceHistory |-> n, trackMemory |-> FALSE]) :
      n \in HistoryLengths }

InitHistory ==
  /\ memAvailable = TRUE
  /\ \E p0 \in HistoryPartials : InitWith(p0)

NextHistory ==
  \/ \E operation \in Operations, now \in StartTimes : StartMeasurement(operation, now)
  \/ \E operation \in Operations, elapsed \in Durations : EndMeasurement(operation, elapsed)
  \/ \E partial \in HistoryPartials : SetConfig(partial)

SpecHistory == InitHistory /\ [][NextHistory]_vars

(***************************************************************************)
(* The backup under fair scheduling, with no cleanup and no setConfig: an   *)
(* armed interval keeps firing, a timer that is due fires, time passes,    *)
(* and the external store settles every write it was given. The minimum    *)
(* level ERROR filters the warnings of the backup, so the byte counter     *)
(* does not limit the number of attempts.                                  *)
(***************************************************************************)
InitRetry ==
  /\ memAvailable = TRUE
  /\ InitWith(With([minLevel |-> "ERROR"]))

\* The external store settles a write.
StoreSettles == BackupSuccess \/ BackupFailure

NextRetry ==
  \/ ClearLogs
  \/ BackupTick
  \/ BackupSuccess
  \/ BackupFailure
  \/ DeferredFailureHandler
  \/ BackoffTimeout
  \/ AdvanceTime

FairRetry ==
  /\ WF_vars(BackupTick)
  /\ WF_vars(DeferredFailureHandler)
  /\ WF_vars(BackoffTimeout)
  /\ WF_vars(AdvanceTime)
  /\ WF_vars(StoreSettles)
  /\ WF_vars(ClearLogs)

SpecRetry == InitRetry /\ [][NextRetry]_vars /\ FairRetry

(***************************************************************************)
(* Properties.                                                             *)
(***************************************************************************)
\* The last entry of a non-empty buffer.
Last(buf) == buf[Len(buf)]

\* C1. A log/debug/info/warn call whose level is below the configured
\* minimum level has no effect at all: the buffer, the byte counter of the
\* rotation and the console are left as they were.
C1_BelowMinimumNoEffect ==
  [][ (lastOp'.op = "log" /\ indexOf(lastOp'.level) < indexOf(config.minLevel))
        => /\ logBuffer' = logBuffer
           /\ currentLogSize' = currentLogSize
           /\ consoleOut' = <<>> ]_vars

\* A call below the minimum level has just returned, on a buffer and a byte
\* counter that earlier calls had filled.
C1_Witness ==
  /\ lastOp.op = "log"
  /\ indexOf(lastOp.level) < indexOf(config.minLevel)
  /\ Len(logBuffer) > 0
  /\ currentLogSize > 0

\* C2. In every reachable state the buffer holds at most maxLogSize entries.
C2_BufferWithinCapacity == Len(logBuffer) <= config.maxLogSize

C5_UnnamedFieldsTakeDefaults ==
  lastOp.op = "setConfig" =>
    /\ \A f \in ConfigFields \ {"format"} :
         lastOp.partial[f] = <<>> => config[f] = DEFAULT_CONFIG[f]
    /\ \A g \in FormatFields :
         (lastOp.partial.format = <<>> \/ lastOp.partial.format[1][g] = <<>>)
           => config.format[g] = DEFAULT_CONFIG.format[g]

\* setConfig has returned a default for a field its partial did not name
\* although the field had another value before the call.
C5_Witness ==
  /\ lastOp.op = "setConfig"
  /\ lastOp.partial.maxLogSize = <<>>
  /\ lastOp.partial.minLevel # <<>>
  /\ lastOp.old.maxLogSize # DEFAULT_maxLogSize
  /\ config.maxLogSize = DEFAULT_maxLogSize

\* C5 as stated: after setConfig(partial) every configuration field the
\* partial does not name keeps the value it had before the call.
C5_UnnamedFieldsKeepValue ==
  lastOp.op = "setConfig" =>
    \A f \in ConfigFields : lastOp.partial[f] = <<>> => config[f] = lastOp.old[f]

\* C6. minLevel is always one of the four levels and maxLogSize is always
\* positive; setConfig given a minLevel that is no level, or a maxLogSize
\* that is not positive, returns DEFAULT_CONFIG's value for that field.
C6_InvalidValuesTakeDefaults ==
  /\ config.minLevel \in LogLevels
  /\ config.maxLogSize > 0
  /\ lastOp.op = "setConfig" =>
       /\ (lastOp.partial.minLevel # <<>> /\ lastOp.partial.minLevel[1] \notin LogLevels)
            => config.minLevel = DEFAULT_CONFIG.minLevel
       /\ (lastOp.partial.maxLogSize # <<>> /\ lastOp.partial.maxLogSize[1] <= 0)
            => config.maxLogSize = DEFAULT_CONFIG.maxLogSize

\* setConfig was given an invalid minLevel and a non-positive maxLogSize
\* while both fields had valid values other than the defaults.
C6_Witness ==
  /\ lastOp.op = "setConfig"
  /\ lastOp.partial.minLevel # <<>>
  /\ lastOp.partial.minLevel[1] \notin LogLevels
  /\ lastOp.partial.maxLogSize # <<>>
  /\ lastOp.partial.maxLogSize[1] <= 0
  /\ lastOp.old.minLevel # DEFAULT_CONFIG.minLevel
  /\ lastOp.old.maxLogSize # DEFAULT_CONFIG.maxLogSize

\* C6 as stated: minLevel and maxLogSize are always valid, and setConfig
\* given an invalid value for one of them keeps the field's previous value.
C6_InvalidValuesKeepPrevious ==
  /\ config.minLevel \in LogLevels
  /\ config.maxLogSize > 0
  /\ lastOp.op = "setConfig" =>
       /\ (lastOp.partial.minLevel # <<>> /\ lastOp.partial.minLevel[1] \notin LogLevels)
            => config.minLevel = lastOp.old.minLevel
       /\ (lastOp.partial.maxLogSize # <<>> /\ lastOp.partial.maxLogSize[1] <= 0)
            => config.maxLogSize = lastOp.old.maxLogSize

\* C7. When setConfig returns, a backup timer is scheduled iff
\* backupInterval > 0, a rotation timer iff persistLogs, a memory-check timer
\* iff trackMemory and the memory probe is available, and each interval has
\* the period of the effective configuration.
C7_TriggersMatchConfig ==
  lastOp.op = "setConfig" =>
    /\ (backupIntervalId # NoTimer) <=> (config.backupInterval > 0)
    /\ backupIntervalId.kind = "interval"
         => backupIntervalId.delay = config.backupInterval
    /\ rotationIntervalId =
         IF config.persistLogs THEN Interval(config.rotationInterval) ELSE NoTimer
    /\ memoryCheckIntervalId =
         IF config.trackMemory /\ memAvailable
           THEN Interval(config.memoryCheckInterval) ELSE NoTimer

\* C8. When cleanup returns the three timer handles are null, no group is
\* active and the buffer is empty; a cleanup called right after a cleanup
\* changes nothing of the logger's state and writes nothing to the console.
C8_CleanupClearsAndIsIdempotent ==
  [][ lastOp'.op = "cleanup" =>
        /\ memoryCheckIntervalId' = NoTimer
        /\ backupIntervalId' = NoTimer
        /\ rotationIntervalId' = NoTimer
        /\ currentGroup' = NULL
        /\ logBuffer' = <<>>
        /\ lastOp.op = "cleanup" =>
             /\ UNCHANGED <<config, timerVars, backupVars, logBuffer, currentLogSize,
                            rotInFlight, currentGroup, envVars, perfVars>>
             /\ consoleOut' = <<>> ]_vars

\* cleanup was called twice in a row, and the first call cancelled three
\* timers, closed a group and dropped entries.
C8_Witness ==
  /\ lastOp.op = "cleanup"
  /\ lastOp.again
  /\ lastOp.cancelled = 3
  /\ lastOp.dropped > 0
  /\ lastOp.closed

\* The operations that run as callbacks of the logger's timers.
TimerOps ==
  {"backupTick", "backoffTimeout", "handleBackupFailure", "rotationTick", "memoryCheck"}

\* C9. Once cleanup has returned (and until setConfig is called) no timer
\* callback of the logger runs, and a backup attempt that was in flight adds
\* no entry to the buffer when it completes.
C9_NoPeriodicWorkAfterCleanup ==
  [][ cleanedUp =>
        /\ lastOp'.op \notin TimerOps
        /\ lastOp'.op \in {"backupSuccess", "backupFailure"} => logBuffer' = logBuffer ]_vars

\* C10. When a backup attempt succeeds the failure count becomes zero and
\* the backoff interval its initial value, whatever they were; the INFO
\* confirmation is the newest entry of the buffer if the minimum level is
\* at most INFO, and otherwise the buffer is left as it was.
C10_SuccessResets ==
  [][ lastOp'.op = "backupSuccess" =>
        /\ backupFailures' = 0
        /\ backupBackoffTime' = INITIAL_BACKOFF_TIME
        /\ IF indexOf("INFO") >= indexOf(config.minLevel)
             THEN /\ logBuffer' # <<>>
                  /\ Last(logBuffer').level = "INFO"
                  /\ Last(logBuffer').message = "Logs backed up successfully"
             ELSE logBuffer' = logBuffer ]_vars

\* A backup succeeded after failures had been counted and the backoff
\* interval doubled, and its confirmation was recorded.
C10_Witness ==
  /\ lastOp.op = "backupSuccess"
  /\ lastOp.failuresBefore > 0
  /\ lastOp.backoffBefore > INITIAL_BACKOFF_TIME
  /\ backupFailures = 0
  /\ backupBackoffTime = INITIAL_BACKOFF_TIME
  /\ logBuffer # <<>>
  /\ Last(logBuffer).message = "Logs backed up successfully"

\* C10 as stated: when a backup attempt succeeds the failure count becomes
\* zero, the backoff interval its initial value, and an INFO confirmation
\* entry is recorded.
C10_SuccessAlwaysConfirms ==
  lastOp.op = "backupSuccess" =>
    /\ backupFailures = 0
    /\ backupBackoffTime = INITIAL_BACKOFF_TIME
    /\ logBuffer # <<>>
    /\ Last(logBuffer).level = "INFO"
    /\ Last(logBuffer).message = "Logs backed up successfully"

\* B * 2^n
RECURSIVE Doubled(_, _)
Doubled(b, n) == IF n = 0 THEN b ELSE Doubled(2 * b, n - 1)

\* C11. Of three consecutive failed attempts from zero failures, each handled
\* before the next, the k-th leaves the backoff interval at
\* INITIAL_BACKOFF_TIME * 2^(k-1), capped at MAX_BACKOFF_TIME, and records a
\* WARN entry 'Backup failed, implementing backoff'.
C11_BackoffSequence ==
  [][ ( /\ lastOp'.op = "handleBackupFailure"
        /\ backupFailures \in 1..3
        /\ pendingHandlers = 1
        /\ inFlight = 0 )
      => /\ backupBackoffTime' =
              Min(Doubled(INITIAL_BACKOFF_TIME, backupFailures - 1), MAX_BACKOFF_TIME)
         /\ logBuffer' # <<>>
         /\ Last(logBuffer').level = "WARN"
         /\ Last(logBuffer').message = "Backup failed, implementing backoff" ]_vars

\* C12. When the deferred handler finds MAX_BACKUP_FAILURES failures it
\* records the WARN entry 'Backup disabled due to repeated failures' and
\* cancels the backup trigger; from then on the trigger stays cancelled and
\* no backup tick runs, until setConfig is called with a partial that names
\* backupInterval.
C12_DisabledUntilReconfigured ==
  [][ /\ ( /\ lastOp'.op = "handleBackupFailure"
            /\ backupFailures >= MAX_BACKUP_FAILURES )
          => /\ backupIntervalId' = NoTimer
             /\ logBuffer' # <<>>
             /\ Last(logBuffer').level = "WARN"
             /\ Last(logBuffer').message = "Backup disabled due to repeated failures"
      /\ ( /\ backupFailures >= MAX_BACKUP_FAILURES
            /\ backupIntervalId = NoTimer
            /\ ~(lastOp'.op = "setConfig" /\ lastOp'.partial.backupInterval # <<>>) )
          => /\ backupIntervalId' = NoTimer
             /\ lastOp'.op # "backupTick" ]_vars

\* C14. The step on which the byte counter reaches rotation.maxSize starts
\* exactly one rotation of the log file.
C14_RotationOncePerCrossing ==
  [][ ( /\ currentLogSize < config.rotation.maxSize
        /\ currentLogSize' >= config'.rotation.maxSize )
      => rotInFlight' = rotInFlight + 1 ]_vars

LoggedContext == lastOp.context
StoredContext ==
  LET c == Last(logBuffer).context IN
  IF lastOp.op = "error" THEN Obj(c.id, SubSeq(c.entries, 1, Len(c.entries) - 1)) ELSE c
\* The last operation was a logging call with a context that stored an entry.
StoredWithContext ==
  /\ lastOp.op \in {"log", "error"}
  /\ lastOp.context.type = "object"
  /\ lastOp.op = "log" => shouldLog(config, lastOp.level)

\* The primitive values in a context value.
RECURSIVE Leaves(_)
Leaves(v) ==
  CASE v.type = "object" -> UNION {Leaves(v.entries[i].value) : i \in 1..Len(v.entries)}
    [] v.type = "array"  -> UNION {Leaves(v.items[i]) : i \in 1..Len(v.items)}
    [] v.type \in {"null", "undefined"} -> {}
    [] OTHER -> {v}

\* The primitive values a context holds under its sensitive keys.
RECURSIVE Secrets(_, _)
Secrets(cfg, v) ==
  CASE v.type = "object" ->
         UNION { IF isSensitiveKey(cfg, v.entries[i].key)
                   THEN Leaves(v.entries[i].value)
                   ELSE Secrets(cfg, v.entries[i].value) : i \in 1..Len(v.entries) }
    [] v.type = "array" -> UNION {Secrets(cfg, v.items[i]) : i \in 1..Len(v.items)}
    [] OTHER -> {}

\* The identities of the objects and arrays in a context value, one per
\* reference.
RECURSIVE References(_)
References(v) ==
  CASE v.type = "object" ->
         <<v.id>> \o
         (LET RECURSIVE Each(_)
              Each(i) == IF i > Len(v.entries) THEN <<>>
                         ELSE References(v.entries[i].value) \o Each(i + 1)
          IN Each(1))
    [] v.type = "array" ->
         <<v.id>> \o
         (LET RECURSIVE Each(_)
              Each(i) == IF i > Len(v.items) THEN <<>>
                         ELSE References(v.items[i]) \o Each(i + 1)
          IN Each(1))
    [] OTHER -> <<>>
ReferencedTwice(root, id) ==
  LET refs == References(root) IN
  Cardinality({i \in 1..Len(refs) : refs[i] = id}) >= 2

\* Some key in v, at whatever depth, is sensitive.
RECURSIVE HasSensitiveKey(_, _)
HasSensitiveKey(cfg, v) ==
  CASE v.type = "object" ->
         \E i \in 1..Len(v.entries) :
           \/ isSensitiveKey(cfg, v.entries[i].key)
           \/ HasSensitiveKey(cfg, v.entries[i].value)
    [] v.type = "array" -> \E i \in 1..Len(v.items) : HasSensitiveKey(cfg, v.items[i])
    [] OTHER -> FALSE

\* out keeps every sensitive key of in, at every depth, with the marker as
\* its value.
RECURSIVE RedactedAtEveryDepth(_, _, _)
RedactedAtEveryDepth(cfg, in, out) ==
  CASE in.type = "object" /\ HasSensitiveKey(cfg, in) ->
         /\ out.type = "object"
         /\ Len(out.entries) = Len(in.entries)
         /\ \A i \in 1..Len(in.entries) :
              /\ out.entries[i].key = in.entries[i].key
              /\ IF isSensitiveKey(cfg, in.entries[i].key)
                   THEN out.entries[i].value = Str(REDACTED)
                   ELSE RedactedAtEveryDepth(cfg, in.entries[i].value, out.entries[i].value)
    [] in.type = "array" /\ HasSensitiveKey(cfg, in) ->
         /\ out.type = "array"
         /\ Len(out.items) = Len(in.items)
         /\ \A i \in 1..Len(in.items) : RedactedAtEveryDepth(cfg, in.items[i], out.items[i])
    [] OTHER -> TRUE

\* The same, but that an object or array deeper than MAX_REDACT_DEPTH is
\* stored as the depth marker and one referenced twice in root may be stored
\* as the cycle marker.
RECURSIVE RedactedWhereWalked(_, _, _, _, _)
RedactedWhereWalked(cfg, root, in, out, depth) ==
  CASE in.type \in {"object", "array"} /\ depth > MAX_REDACT_DEPTH ->
         out = Str(MaxDepthMarker)
    [] in.type \in {"object", "array"} /\ depth <= MAX_REDACT_DEPTH
         /\ out = Str(CircularMarker) ->
         ReferencedTwice(root, in.id)
    [] in.type = "object" /\ depth <= MAX_REDACT_DEPTH /\ out # Str(CircularMarker) ->
         /\ out.type = "object"
         /\ Len(out.entries) = Len(in.entries)
         /\ \A i \in 1..Len(in.entries) :
              /\ out.entries[i].key = in.entries[i].key
              /\ IF isSensitiveKey(cfg, in.entries[i].key)
                   THEN out.entries[i].value = Str(REDACTED)
                   ELSE RedactedWhereWalked(cfg, root, in.entries[i].value,
                                            out.entries[i].value, depth + 1)
    [] in.type = "array" /\ depth <= MAX_REDACT_DEPTH /\ out # Str(CircularMarker) ->
         /\ out.type = "array"
         /\ Len(out.items) = Len(in.items)
         /\ \A i \in 1..Len(in.items) :
              RedactedWhereWalked(cfg, root, in.items[i], out.items[i], depth + 1)
    [] OTHER -> TRUE

C17_NoMarkerInMessage ==
  \A i \in 1..Len(logBuffer) : ~includes(logBuffer[i].message, REDACTED)

C19_NestedStartAlwaysWarns ==
  [][ (lastOp'.op = "startLogGroup" /\ currentGroup # NULL)
      => /\ logBuffer' # <<>>
         /\ logBuffer' = Append(logBuffer, Last(logBuffer'))
         /\ Last(logBuffer').level = "WARN"
         /\ Last(logBuffer').message = NestedMsg ]_vars

\* C19, amended: startLogGroup called while a group is active appends the
\* WARN entry when the minimum level is DEBUG, INFO or WARN, and leaves the
\* buffer as it is when the minimum level is ERROR.
C19_NestedStartWarnsUnlessFiltered ==
  [][ (lastOp'.op = "startLogGroup" /\ currentGroup # NULL)
      => IF config.minLevel \in {"DEBUG", "INFO", "WARN"}
           THEN /\ logBuffer' # <<>>
                /\ logBuffer' = Append(logBuffer, Last(logBuffer'))
                /\ Last(logBuffer').level = "WARN"
                /\ Last(logBuffer').message = NestedMsg
                /\ Last(logBuffer').group = currentGroup
           ELSE logBuffer' = logBuffer ]_vars

\* A nested startLogGroup has just appended its warning.
C19_Witness ==
  /\ lastOp.op = "startLogGroup"
  /\ lastOp.nested
  /\ config.minLevel = "INFO"
  /\ logBuffer # <<>>
  /\ Last(logBuffer).level = "WARN"
  /\ Last(logBuffer).message = NestedMsg

\* The number of measurements below v, and of those not above it.
Below(h, v) == Cardinality({i \in 1..Len(h) : h[i] < v})
NotAbove(h, v) == Cardinality({i \in 1..Len(h) : h[i] <= v})
\* v stands at 0-based position k of h in ascending order.
AtRank(h, v, k) ==
  /\ \E i \in 1..Len(h) : h[i] = v
  /\ Below(h, v) <= k
  /\ k < NotAbove(h, v)
\* The percentile reported for percent out of 100 is the measurement at
\* position floor(count * percent / 100) in ascending order, a position
\* within the history.
ReportedAtRank(h, v, percent) ==
  LET k == (Len(h) * percent) \div 100 IN
  /\ k \in 0..(Len(h) - 1)
  /\ AtRank(h, v, k)

\* C20: the percentiles endMeasurement reports for a non-empty duration
\* history are the elements at index floor(count * f), f = 0.5, 0.9, 0.95
\* and 0.99, of the history sorted ascending, each index lying within the
\* history; [10,20,30,40,50] in any recording order gives p50 = 30.
C20_PercentileAtFloorIndex ==
  (lastOp.op = "endMeasurement" /\ lastOp.found) =>
    LET h == performanceHistory[lastOp.operation]
        p == lastOp.metrics.percentiles
    IN /\ h # <<>>
       /\ lastOp.metrics.count = Len(h)
       /\ ReportedAtRank(h, p.p50, 50)
       /\ ReportedAtRank(h, p.p90, 90)
       /\ ReportedAtRank(h, p.p95, 95)
       /\ ReportedAtRank(h, p.p99, 99)
       /\ (Len(h) = 5 /\ {h[i] : i \in 1..Len(h)} = {10, 20, 30, 40, 50}) => p.p50 = 30

\* The durations 10..50 were recorded out of order, and the median reported
\* is 30.
C20_Witness ==
  /\ lastOp.op = "endMeasurement"
  /\ lastOp.found
  /\ performanceHistory["op"] = <<50, 10, 40, 20, 30>>
  /\ lastOp.metrics.percentiles.p50 = 30
  /\ lastOp.metrics.percentiles.p90 = 50

\* The message endMeasurement warns with when it finds no start.
NoStartMsg(operation) == "No start time found for operation: " \o operation

\* A step of endMeasurement for an operation with no start recorded.
EndWithoutStart ==
  /\ lastOp'.op = "endMeasurement"
  /\ performanceMarks[lastOp'.operation] = <<>>

\* The step recorded exactly one entry, a WARN with the no-start message.
OneWarnRecorded ==
  /\ consoleOut' = <<"warn">>
  /\ logBuffer' # <<>>
  /\ Last(logBuffer').level = "WARN"
  /\ Last(logBuffer').message = NoStartMsg(lastOp'.operation)
  /\ pushed' = sliceLast(Append(pushed, Last(logBuffer')), MaxBuffer)

\* C21 as stated: endMeasurement(op) with no start recorded for op leaves the
\* duration history unchanged, records no INFO completion entry, and records
\* a single WARN entry.
C21_NoStartWarnsOnce ==
  [][ EndWithoutStart => /\ UNCHANGED perfVars
                         /\ OneWarnRecorded ]_vars

\* C21, amended: the same, the WARN entry being recorded when the minimum
\* level is DEBUG, INFO or WARN; at minimum level ERROR the call records
\* nothing at all.
C21_NoStartWarnsUnlessFiltered ==
  [][ EndWithoutStart =>
        /\ UNCHANGED perfVars
        /\ IF config.minLevel \in {"DEBUG", "INFO", "WARN"}
             THEN OneWarnRecorded
             ELSE UNCHANGED <<logBuffer, pushed>> /\ consoleOut' = <<>> ]_vars

\* endMeasurement found no start for the operation and the warning is the
\* newest entry, after a measurement that was completed earlier.
C21_Witness ==
  /\ lastOp.op = "endMeasurement"
  /\ ~lastOp.found
  /\ performanceMarks["op"] = <<>>
  /\ performanceHistory["op"] # <<>>
  /\ logBuffer # <<>>
  /\ Last(logBuffer).level = "WARN"
  /\ Last(logBuffer).message = NoStartMsg("op")

\* The record exported for a stored entry tells the same as the entry: its
\* level, its message and its context (a property that is undefined and one
\* that is absent being the same to the reader).
SameAsStored(record, entry) ==
  /\ Get(record, "level") = Str(entry.level)
  /\ Get(record, "message") = Str(entry.message)
  /\ IF HasKey(record, "context")
       THEN Get(record, "context") = parsed(entry.context)
       ELSE entry.context = Undefined

\* C22: in every state, parsing exportLogs('json') gives one record per
\* buffered entry, in buffer order, with the entry's message, level and
\* context.
C22_ExportRoundTrip ==
  LET records == exportedRecords(config, logBuffer) IN
  /\ Len(records) = Len(logBuffer)
  /\ \A n \in 1..Len(logBuffer) : SameAsStored(records[n], logBuffer[n])

\* The entry satisfies every criterion the options supply; the search term
\* is looked for, in any case of its letters, in the message and in the
\* serialized context of an entry that has one.
Satisfies(options, entry) ==
  /\ options.level # <<>> => indexOf(entry.level) >= indexOf(options.level[1])
  /\ options.startTime # <<>> => entry.timestamp >= options.startTime[1]
  /\ options.endTime # <<>> => entry.timestamp <= options.endTime[1]
  /\ options.group # <<>> => entry.group = options.group[1]
  /\ options.search # <<>> =>
       \/ includes(toLowerCase(entry.message), toLowerCase(options.search[1]))
       \/ /\ entry.context # Undefined
          /\ includes(toLowerCase(safeStringify(config, entry.context)),
                      toLowerCase(options.search[1]))

\* C23: filterLogs(criteria) returns exactly the buffered entries, in buffer
\* order, that satisfy every supplied criterion.
C23_FilterReturnsMatches ==
  [][ lastOp'.op = "filterLogs" =>
        lastOp'.result = SelectSeq(logBuffer, LAMBDA entry : Satisfies(lastOp'.options, entry))
    ]_vars

\* The step is a logging call that records an entry.
RecordsEntry ==
  \/ lastOp'.op = "error"
  \/ lastOp'.op = "log" /\ shouldLog(config, lastOp'.level)

\* C24: an entry recorded by any logging call carries a memory snapshot if
\* memory tracking is enabled and the probe is available at the call, and
\* carries none otherwise.
C24_MemoryOnEveryEntry ==
  [][ RecordsEntry => Last(pushed').memory = (config.trackMemory /\ memAvailable) ]_vars

\* C25: after setConfig(partial) every option the partial does not specify,
\* the options of format included, has its value of DEFAULT_CONFIG whatever
\* the configuration was before the call; setConfig({}) gives DEFAULT_CONFIG.
C25_UnspecifiedOptionsAreDefaults ==
  [][ lastOp'.op = "setConfig" =>
        LET partial == lastOp'.partial IN
        /\ \A f \in ConfigFields \ {"format"} :
             partial[f] = <<>> => config'[f] = DEFAULT_CONFIG[f]
        /\ \A g \in FormatFields :
             (partial.format = <<>> \/ partial.format[1][g] = <<>>)
               => config'.format[g] = DEFAULT_CONFIG.format[g]
        /\ partial = EmptyPartial => config' = DEFAULT_CONFIG
    ]_vars

\* setConfig({}) has returned DEFAULT_CONFIG to a logger whose configuration
\* was another one.
C25_Witness ==
  /\ lastOp.op = "setConfig"
  /\ lastOp.partial = EmptyPartial
  /\ lastOp.old # DEFAULT_CONFIG
  /\ config = DEFAULT_CONFIG

\* The fields of the configuration each trigger is set up from.
TriggerFields(trigger) ==
  CASE trigger = "memory" -> {"memoryCheckInterval", "trackMemory"}
    [] trigger = "backup" -> {"backupInterval"}
    [] trigger = "rotation" -> {"rotationInterval", "persistLogs"}

TriggerTimer(trigger) ==
  CASE trigger = "memory" -> memoryCheckIntervalId
    [] trigger = "backup" -> backupIntervalId
    [] trigger = "rotation" -> rotationIntervalId

\* The partial names fields of this trigger and of nothing else.
NamesOnly(partial, trigger) ==
  /\ \E f \in TriggerFields(trigger) : partial[f] # <<>>
  /\ \A f \in ConfigFields \ TriggerFields(trigger) : partial[f] = <<>>

\* C26: a setConfig call that names the fields of one trigger only neither
\* cancels nor restarts the timers of the other two triggers.
C26_OtherTriggersUntouched ==
  [][ lastOp'.op = "setConfig" =>
        \A t \in Triggers : NamesOnly(lastOp'.partial, t) =>
          \A u \in Triggers \ {t} :
            /\ u \notin lastOp'.touched
            /\ TriggerTimer(u)' = TriggerTimer(u)
    ]_vars

\* C28: sanitising a context value that is already sanitised gives the same
\* value, for every context given to a logging call.
C28_SanitizeIdempotent ==
  StoredWithContext =>
    LET once == sanitizeContext(config, LoggedContext)
    IN sanitizeContext(config, once) = once

\* A context was stored whose sanitised value holds the redaction marker and
\* the cycle marker, and sanitising changed it.
C28_Witness ==
  /\ StoredWithContext
  /\ {Str(REDACTED), Str(CircularMarker)} \subseteq Leaves(sanitizeContext(config, LoggedContext))
  /\ sanitizeContext(config, LoggedContext) # LoggedContext

\* What C29 says of the value out stored for the value in at depth depth,
\* walking being the objects the walk is inside of: a value deeper than
\* MAX_REDACT_DEPTH is stored as the depth marker, and a reference back to
\* an object being walked as the cycle marker.
RECURSIVE CutAsStated(_, _, _, _)
CutAsStated(in, out, depth, walking) ==
  IF depth > MAX_REDACT_DEPTH THEN out = Str(MaxDepthMarker)
  ELSE IF in.type \in {"object", "array"} /\ in.id \in walking THEN out = Str(CircularMarker)
  ELSE IF in.type = "object" /\ out.type = "object" THEN
    /\ Len(out.entries) = Len(in.entries)
    /\ \A i \in 1..Len(in.entries) :
         CutAsStated(in.entries[i].value, out.entries[i].value, depth + 1,
                     walking \cup {in.id})
  ELSE IF in.type = "array" /\ out.type = "array" THEN
    /\ Len(out.items) = Len(in.items)
    /\ \A i \in 1..Len(in.items) :
         CutAsStated(in.items[i], out.items[i], depth + 1, walking \cup {in.id})
  ELSE TRUE

\* The same, but for the value of a sensitive key, which is stored as the
\* redaction marker whatever it is and however deep it lies.
RECURSIVE CutUnlessRedacted(_, _, _, _, _)
CutUnlessRedacted(cfg, in, out, depth, walking) ==
  IF depth > MAX_REDACT_DEPTH THEN out = Str(MaxDepthMarker)
  ELSE IF in.type \in {"object", "array"} /\ in.id \in walking THEN out = Str(CircularMarker)
  ELSE IF in.type = "object" /\ out.type = "object" THEN
    /\ Len(out.entries) = Len(in.entries)
    /\ \A i \in 1..Len(in.entries) :
         IF isSensitiveKey(cfg, in.entries[i].key)
           THEN out.entries[i].value = Str(REDACTED)
           ELSE CutUnlessRedacted(cfg, in.entries[i].value, out.entries[i].value,
                                  depth + 1, walking \cup {in.id})
  ELSE IF in.type = "array" /\ out.type = "array" THEN
    /\ Len(out.items) = Len(in.items)
    /\ \A i \in 1..Len(in.items) :
         CutUnlessRedacted(cfg, in.items[i], out.items[i], depth + 1, walking \cup {in.id})
  ELSE TRUE

\* C29 as stated: a logging call with a context returns with an entry
\* stored, in whose context every reference back to an object being walked
\* is '[Circular]' and every value deeper than MAX_REDACT_DEPTH is
\* '[Max Depth Exceeded]'.
C29_CyclesAndDepthCut ==
  StoredWithContext =>
    /\ logBuffer # <<>>
    /\ CutAsStated(LoggedContext, StoredContext, 0, {})

\* C29, amended: the same for every value that is not the value of a
\* sensitive key; the value of a sensitive key is '[REDACTED]', be it a
\* reference back or deeper than MAX_REDACT_DEPTH.
C29_CyclesAndDepthCutUnlessRedacted ==
  StoredWithContext =>
    /\ logBuffer # <<>>
    /\ CutUnlessRedacted(config, LoggedContext, StoredContext, 0, {})

\* The call with the object that refers to itself has returned and stored
\* the cycle marker for the reference.
C29_Witness ==
  /\ StoredWithContext
  /\ LoggedContext = CircularContext
  /\ StoredContext = Obj(1, <<Prop("name", Str("test")), Prop("self", Str(CircularMarker))>>)

\* The text holds a character that is not printable: a control character.
HasControlCharacter(s) == \E i \in 1..Len(s) : SubSeq(s, i, i) \notin PrintableChars

\* C30: in every state no entry of the buffer has a control character in
\* its message or in a text of its context.
C30_NoControlCharacterStored ==
  \A n \in 1..Len(logBuffer) :
    /\ ~HasControlCharacter(logBuffer[n].message)
    /\ \A leaf \in Leaves(logBuffer[n].context) :
         leaf.type = "string" => ~HasControlCharacter(leaf.text)

\* The last n elements of a sequence, all of it when it has no more than n.
LastN(s, n) == IF Len(s) <= n THEN s ELSE SubSeq(s, Len(s) - n + 1, Len(s))

\* C31: for every operation, after every step (a measurement or a
\* configuration change) the duration history has at most
\* config.performanceHistory elements, a recorded duration is appended at the
\* end with the oldest durations dropped first, and no other step alters the
\* history, so that it holds the most recently recorded durations in
\* recording order.
C31_HistoryBoundedAndRecent ==
  [][ \A o \in Operations :
        LET before == performanceHistory[o]
            after == performanceHistory'[o]
        IN /\ Len(after) <= config'.performanceHistory
           /\ IF lastOp'.op = "endMeasurement" /\ lastOp'.operation = o /\ lastOp'.found
                THEN after = LastN(Append(before, lastOp'.metrics.duration),
                                   config.performanceHistory)
                ELSE after = before ]_vars

\* C31, amended: a recorded duration is appended at the end of the
\* operation's history with the oldest durations dropped first, which leaves
\* at most config.performanceHistory elements, and no other step alters the
\* history; the history is longer than the configured length only from a
\* setConfig that lowers the length until the next recorded duration.
C31_HistoryBoundedWhenRecorded ==
  [][ \A o \in Operations :
        LET before == performanceHistory[o]
            after == performanceHistory'[o]
            recorded == lastOp'.op = "endMeasurement" /\ lastOp'.operation = o
                          /\ lastOp'.found
        IN /\ IF recorded
                THEN /\ after = LastN(Append(before, lastOp'.metrics.duration),
                                      config.performanceHistory)
                     /\ Len(after) <= config'.performanceHistory
                ELSE after = before
           /\ Len(after) > config'.performanceHistory
                => \/ lastOp'.op = "setConfig"
                        /\ config'.performanceHistory < config.performanceHistory
                   \/ Len(before) > config.performanceHistory ]_vars

\* A measurement was just recorded into a history that is full, at a
\* configured length of two or more.
C31_Witness ==
  /\ lastOp.op = "endMeasurement" /\ lastOp.found
  /\ config.performanceHistory >= 2
  /\ Len(performanceHistory[lastOp.operation]) = config.performanceHistory
  /\ Last(performanceHistory[lastOp.operation]) = lastOp.metrics.duration
  /\ performanceHistory[lastOp.operation][1] # lastOp.metrics.duration

Labelled(buf, name) == SelectSeq(buf, LAMBDA entry : entry.group = name)

\* What a step does to the groups: the entry it records carries the label of
\* the group that is active (none when no group is active), the group that
\* is active afterwards is `active`, and filterLogs({ group: name }) returns
\* the entries of the buffer labelled name, for every name.
GroupStep(active) ==
  /\ Len(logBuffer') > Len(logBuffer) => Last(logBuffer').group = currentGroup
  /\ currentGroup' = active
  /\ \A name \in GroupNames :
       filterLogs(config', logBuffer', [NoOptions EXCEPT !.group = <<name>>])
         = Labelled(logBuffer', name)

C34_AtMostOneAttempt ==
  /\ inFlight <= 1
  /\ lastOp.op = "backupTick" /\ ~lastOp.skipped => inFlight = 1

\* C35: in every reachable state a failure count of zero implies that the
\* backoff interval has its initial value, and the backoff interval lies
\* between the initial value and the maximum backoff.
C35_ZeroFailuresInitialBackoff ==
  /\ backupFailures = 0 => backupBackoffTime = INITIAL_BACKOFF_TIME
  /\ INITIAL_BACKOFF_TIME <= backupBackoffTime
  /\ backupBackoffTime <= MAX_BACKOFF_TIME

\* C36: in every reachable state in which backup is enabled, cleanup has not
\* been called and the failure count is below MAX_BACKUP_FAILURES, a backup
\* timer is scheduled: the periodic interval or the backoff timeout that
\* re-arms it.
C36_TimerWhileNotDisabled ==
  config.backupInterval > 0 /\ ~cleanedUp /\ backupFailures < MAX_BACKUP_FAILURES
    => backupIntervalId # NoTimer

\* A backup attempt has just failed and left the failure count below the
\* maximum.
FailedBelowMaximum ==
  lastOp.op = "backupFailure" /\ backupFailures < MAX_BACKUP_FAILURES

\* A backup tick has just made a real attempt: it was not skipped and handed
\* the export to the external store.
RealAttempt == lastOp.op = "backupTick" /\ ~lastOp.skipped

\* C37: after a failed backup attempt that leaves the failure count below
\* MAX_BACKUP_FAILURES, with no cleanup and no setConfig, another real
\* backup attempt is eventually made when the timers fire fairly.
C37_RetryAfterFailure == FailedBelowMaximum ~> RealAttempt

\* C38: with performance tracking enabled, an endMeasurement(op) that
\* follows a startMeasurement(op) adds exactly one duration to the history of
\* op, whatever the clock value at the start, and uses the start up; an
\* endMeasurement(op) with no start left adds none.
C38_OneDurationPerStart ==
  [][ \A o \in Operations :
        lastOp'.op = "endMeasurement" /\ lastOp'.operation = o
          => IF performanceMarks[o] # <<>>
               THEN /\ lastOp'.found
                    /\ performanceHistory'[o] =
                         LastN(Append(performanceHistory[o], lastOp'.metrics.duration),
                               config.performanceHistory)
                    /\ performanceMarks'[o] = <<>>
               ELSE /\ ~lastOp'.found
                    /\ performanceHistory'[o] = performanceHistory[o] ]_vars

\* What C39 says of the value out stored for the value in, ancestors being
\* the objects that contain the place: the cycle marker stands for an
\* object only where the object is one of its own ancestors, and two
\* properties of one object that hold the same object, neither under a
\* sensitive key nor referring back to an ancestor, are stored as the same
\* value.
RECURSIVE MarkerOnlyAtAncestor(_, _, _, _)
MarkerOnlyAtAncestor(cfg, in, out, ancestors) ==
  IF in.type \notin {"object", "array"} THEN TRUE
  ELSE IF out = Str(CircularMarker) THEN in.id \in ancestors
  ELSE IF in.type = "object" /\ out.type = "object" /\ Len(out.entries) = Len(in.entries) THEN
    /\ \A i \in 1..Len(in.entries) :
         MarkerOnlyAtAncestor(cfg, in.entries[i].value, out.entries[i].value,
                              ancestors \cup {in.id})
    /\ \A i, j \in 1..Len(in.entries) :
         /\ in.entries[i].value.type \in {"object", "array"}
         /\ in.entries[i].value = in.entries[j].value
         /\ in.entries[i].value.id \notin ancestors \cup {in.id}
         /\ ~isSensitiveKey(cfg, in.entries[i].key)
         /\ ~isSensitiveKey(cfg, in.entries[j].key)
         => out.entries[i].value = out.entries[j].value
  ELSE IF in.type = "array" /\ out.type = "array" /\ Len(out.items) = Len(in.items) THEN
    \A i \in 1..Len(in.items) :
      MarkerOnlyAtAncestor(cfg, in.items[i], out.items[i], ancestors \cup {in.id})
  ELSE TRUE

\* C39: in the context a logging call stores, '[Circular]' stands for an
\* object only at a reference to one of the object's own ancestors; an
\* object referenced from two places without forming a cycle is stored as
\* the same value at both.
C39_CircularOnlyForCycles ==
  StoredWithContext /\ logBuffer # <<>>
    => MarkerOnlyAtAncestor(config, LoggedContext, StoredContext, {})

\* Another value a caller may hold under a sensitive key.
OtherSecret == Str("0th3r")

\* The context value v with every value held under a sensitive key, at any
\* depth, replaced by another one.
RECURSIVE WithOtherSecrets(_, _)
RECURSIVE OtherSecretsEntries(_, _)
RECURSIVE OtherSecretsItems(_, _)
WithOtherSecrets(cfg, v) ==
  CASE v.type = "object" -> Obj(v.id, OtherSecretsEntries(cfg, v.entries))
    [] v.type = "array"  -> Arr(v.id, OtherSecretsItems(cfg, v.items))
    [] OTHER -> v
OtherSecretsEntries(cfg, entries) ==
  IF entries = <<>> THEN <<>>
  ELSE LET e == Head(entries)
       IN <<Prop(e.key, IF isSensitiveKey(cfg, e.key)
                          THEN OtherSecret
                          ELSE WithOtherSecrets(cfg, e.value))>>
          \o OtherSecretsEntries(cfg, Tail(entries))
OtherSecretsItems(cfg, items) ==
  IF items = <<>> THEN <<>>
  ELSE <<WithOtherSecrets(cfg, Head(items))>> \o OtherSecretsItems(cfg, Tail(items))

\* The buffer as the last logging call would have left it had its context
\* held other values under its sensitive keys: the entry the call stored is
\* the last of the buffer.
BufferOfOtherCall ==
  LET other == WithOtherSecrets(config, LoggedContext)
      S == IF lastOp.op = "log"
             THEN logWith([LogState EXCEPT !.logBuffer = <<>>], config, lastOp.level,
                          lastOp.message, other, 1)
             ELSE errorWith(lastOp.message, Undefined, other)
  IN [logBuffer EXCEPT ![Len(logBuffer)] = Last(S.logBuffer)]

\* C40: a logging call with a context leaves the same entries as the call
\* that differs from it only in the values held under sensitive keys: the
\* buffer getLogs returns, the entries filterLogs returns for every filter
\* and the text exportLogs('json') returns are the same for both calls.
C40_EntriesIndependentOfSecrets ==
  StoredWithContext /\ logBuffer # <<>>
    => /\ BufferOfOtherCall = logBuffer
       /\ \A options \in FilterOptions :
            filterLogs(config, BufferOfOtherCall, options)
              = filterLogs(config, logBuffer, options)
       /\ safeStringify(config, bufferValue(BufferOfOtherCall))
            = safeStringify(config, bufferValue(logBuffer))

=============================================================================
